---- MODULE Spec2Model ----
(***************************************************************************)
(* Release lifecycle engine of deep: the catalog (releases, deployments,   *)
(* current_releases), the Caddyfile with its managed blocks, the quadlet   *)
(* unit files and the units the init system runs, driven by handle_deploy  *)
(* and handle_rollback.  One controller process runs at a time.  The       *)
(* runtime, the init system and the proxy reload may fail at every step    *)
(* that uses them; the catalog may fail at the transaction that records    *)
(* the operation and at the reads of retention, and its later single-row   *)
(* writes, issued right after a committed transaction, succeed; the insert *)
(* of a proxy_error event, whose result the code drops, may fail.          *)
(*                                                                         *)
(* Spec runs the two handlers; ProxySpec the route step on edited proxy    *)
(* files; BindSpec the addons bind command after a first deploy;           *)
(* HealthSpec the retry loop of the health step; RunnerSpec the threads    *)
(* that override the process-global command runner.                        *)
(***************************************************************************)
EXTENDS Integers, Sequences, FiniteSets, TLC

\* ------------------------------------------------------------------ bounds
\* Release ids (ULIDs) handed out by deploys, and deployment ids.
MaxReleases == 3
MaxDeployments == 3

\* ------------------------------------------------------------------ inputs
Apps == {"a1", "a2"}

\* Option<T>: the empty set is None, a singleton is Some(x).
None == {}
Some(x) == {x}

\* A string is the sequence of its pieces: "," is a comma, " " a space and
\* any other piece a run of ordinary characters.
\* An env map (BTreeMap<String, String>) is a function from keys to values.
EmptyEnv == [k \in {} |-> <<>>]

\* app.toml as load_app_config reads it at a deploy: port, domains, retain
\* and the [env] table.
AppConfigs ==
    { [port |-> 8080, domains |-> << <<"h1">> >>, retain |-> 0, env |-> EmptyEnv],
      [port |-> 9090, domains |-> << <<"h1">>, <<"h2">> >>, retain |-> 2,
       env |-> [k \in {<<"K4">>, <<"K6">>} |-> <<"app">>]] }

NoSnap == [port |-> 0, domains |-> <<>>, retain |-> 0, env |-> EmptyEnv, addons |-> <<>>]

\* AppConfig::to_snapshot: the snapshot carries the config's fields and the
\* addon snapshots handed in.
to_snapshot(cfg, addon_snapshots) ==
    [port |-> cfg.port, domains |-> cfg.domains, retain |-> cfg.retain,
     env |-> cfg.env, addons |-> addon_snapshots]

\* The addon names there are, in the ascending order of ORDER BY addons.name.
AddonNames == <<"cache", "pg">>

\* Mutation: a key of the addon's env keeps the addon's value.
merge_binding_env_addon_wins(addon_config, binding_env) ==
    [addon_config EXCEPT !.env =
        [k \in DOMAIN @ \cup DOMAIN binding_env |->
            IF k \in DOMAIN @ THEN @[k] ELSE binding_env[k]]]

\* merge_binding_env: every key of the binding's env is inserted into the
\* "env" object of the addon config.  The rows of the model are written by
\* upsert_addon and bind_addon only, so both texts parse as objects.
merge_binding_env(addon_config, binding_env) ==
    [addon_config EXCEPT !.env =
        [k \in DOMAIN @ \cup DOMAIN binding_env |->
            IF k \in DOMAIN binding_env THEN binding_env[k] ELSE @[k]]]

\* addon_snapshots_for_app: addons INNER JOIN bindings ON addon_id, WHERE
\* app_id, ORDER BY addons.name ASC; one snapshot per joined row.
addon_snapshots_for_app(addon_rows, binding_rows, app_id) ==
    LET joined(name) ==
            { p \in addon_rows \X binding_rows :
                p[1].name = name /\ p[2].addon_id = p[1].id /\ p[2].app_id = app_id }
        names == SelectSeq(AddonNames, LAMBDA n : joined(n) # {})
    IN  [i \in DOMAIN names |->
            LET p == CHOOSE q \in joined(names[i]) : TRUE IN
            [name |-> names[i], config |-> merge_binding_env(p[1].config, p[2].env)]]

\* apply_addon_env: for each addon of the snapshot in order, every entry of
\* its config's env is inserted into the snapshot's env.
RECURSIVE ApplyAddonEnvFrom(_, _, _)
ApplyAddonEnvFrom(env, addon_snapshots, i) ==
    IF i > Len(addon_snapshots) THEN env
    ELSE LET addon_env == addon_snapshots[i].config.env IN
         ApplyAddonEnvFrom([k \in DOMAIN env \cup DOMAIN addon_env |->
                               IF k \in DOMAIN addon_env THEN addon_env[k] ELSE env[k]],
                           addon_snapshots, i + 1)

apply_addon_env(snapshot) ==
    [snapshot EXCEPT !.env = ApplyAddonEnvFrom(@, snapshot.addons, 1)]

\* ------------------------------------------------------------------ catalog
\* current_release_id: SELECT release_id FROM current_releases WHERE app_id.
current_release_id(cr, app_id) == { row.release_id : row \in { x \in cr : x.app_id = app_id } }

\* set_current_release: INSERT ... ON CONFLICT(app_id) DO UPDATE.
set_current_release_append(cr, app_id, release_id) ==
    cr \cup { [app_id |-> app_id, release_id |-> release_id] }

set_current_release(cr, app_id, release_id) ==
    { x \in cr : x.app_id # app_id } \cup { [app_id |-> app_id, release_id |-> release_id] }

insert_release(rels, release) == rels \cup {release}

insert_deployment(deps, id, app_id, from, to, status, error) ==
    deps \cup { [id |-> id, app_id |-> app_id, from |-> from, to |-> to,
                 status |-> status, error |-> error] }

\* Mutation: the UPDATE matches no row.
set_release_status_no_row(rels, release_id, status) == rels

\* UPDATE releases SET status WHERE id.
set_release_status(rels, release_id, status) ==
    { IF r.id = release_id THEN [r EXCEPT !.status = status] ELSE r : r \in rels }

\* Mutation: the UPDATE sets the status and leaves the error column.
update_deployment_status_keeps_error(deps, id, status, error) ==
    { IF d.id = id THEN [d EXCEPT !.status = status] ELSE d : d \in deps }

\* UPDATE deployments SET status, error WHERE id.
update_deployment_status(deps, id, status, error) ==
    { IF d.id = id THEN [d EXCEPT !.status = status, !.error = error] ELSE d : d \in deps }

\* DELETE FROM deployments WHERE from_release_id = ?1 OR to_release_id = ?1.
delete_deployments_for_release(deps, release_id) ==
    { d \in deps : d.from # Some(release_id) /\ d.to # Some(release_id) }

delete_release(rels, release_id) == { r \in rels : r.id # release_id }

get_release_by_id(rels, release_id) == { r \in rels : r.id = release_id }

\* Mutation: the list is ordered by created_at ascending.
RECURSIVE SortNewestFirst_ascending(_)
SortNewestFirst_ascending(S) ==
    IF S = {} THEN <<>>
    ELSE LET m == CHOOSE r \in S : \A q \in S : q.created_at >= r.created_at
         IN  <<m>> \o SortNewestFirst_ascending(S \ {m})

\* ORDER BY created_at DESC.
RECURSIVE SortNewestFirst(_)
SortNewestFirst(S) ==
    IF S = {} THEN <<>>
    ELSE LET m == CHOOSE r \in S : \A q \in S : q.created_at <= r.created_at
         IN  <<m>> \o SortNewestFirst(S \ {m})

\* list_releases: WHERE app_id ORDER BY created_at DESC.
list_releases(rels, app_id) == SortNewestFirst({ r \in rels : r.app_id = app_id })

\* ------------------------------------------------------------------ proxy file
\* The Caddyfile is the sequence of its lines, each already trimmed:
\* <<"start", app>> is "# deep:app:<app>", <<"end">> is "# deep:end",
\* <<"hosts", text>> is "<text> {", <<"rp", upstream>> is
\* "reverse_proxy <upstream>", <<"close">> is "}", <<"blank">> an empty line
\* and <<"text", x>> any other line.
app_container_name(app, release_id) == <<"deep-app", app, release_id>>

Upstream(app, release_id, port) == <<app_container_name(app, release_id), port>>

\* domains.join(", ")
RECURSIVE JoinHosts(_)
JoinHosts(domains) ==
    IF domains = <<>> THEN <<>>
    ELSE IF Len(domains) = 1 THEN domains[1]
    ELSE domains[1] \o <<",", " ">> \o JoinHosts(Tail(domains))

\* Mutation: the hosts are written last to first.
RenderBlock_hosts_reversed(app, domains, upstream) ==
    << <<"start", app>>,
       <<"hosts", JoinHosts([i \in 1..Len(domains) |-> domains[Len(domains) + 1 - i]])>>,
       <<"rp", upstream>>, <<"close">>, <<"end">> >>

RenderBlock(app, domains, upstream) ==
    << <<"start", app>>, <<"hosts", JoinHosts(domains)>>, <<"rp", upstream>>,
       <<"close">>, <<"end">> >>

\* Mutation: the start marker of any app opens a block to drop.
RECURSIVE KeptLines_any_app(_, _, _)
KeptLines_any_app(lines, app, in_block) ==
    IF lines = <<>> THEN <<>>
    ELSE LET line == Head(lines) IN
         IF line[1] = "start" THEN KeptLines_any_app(Tail(lines), app, TRUE)
         ELSE IF in_block /\ line = <<"end">> THEN KeptLines_any_app(Tail(lines), app, FALSE)
         ELSE IF ~in_block THEN <<line>> \o KeptLines_any_app(Tail(lines), app, in_block)
         ELSE KeptLines_any_app(Tail(lines), app, in_block)

\* The loop of upsert_caddyfile_block: the lines outside the app's block.
RECURSIVE KeptLines(_, _, _)
KeptLines(lines, app, in_block) ==
    IF lines = <<>> THEN <<>>
    ELSE LET line == Head(lines) IN
         IF line = <<"start", app>> THEN KeptLines(Tail(lines), app, TRUE)
         ELSE IF in_block /\ line = <<"end">> THEN KeptLines(Tail(lines), app, FALSE)
         ELSE IF ~in_block THEN <<line>> \o KeptLines(Tail(lines), app, in_block)
         ELSE KeptLines(Tail(lines), app, in_block)

\* lines.join("\n") followed by the push of a newline unless the text is
\* empty or ends with one: a final empty line adds no line of its own.
JoinLines(kept) ==
    IF kept # <<>> /\ kept[Len(kept)] = <<"blank">>
    THEN SubSeq(kept, 1, Len(kept) - 1)
    ELSE kept

\* Mutation: the new block is appended and the old one is kept.
upsert_caddyfile_block_keep_old(contents, app, domains, upstream) ==
    JoinLines(contents) \o RenderBlock(app, domains, upstream)

upsert_caddyfile_block(contents, app, domains, upstream) ==
    JoinLines(KeptLines(contents, app, FALSE)) \o RenderBlock(app, domains, upstream)

\* str::trim on a text.
RECURSIVE TrimStart(_)
TrimStart(text) ==
    IF text # <<>> /\ Head(text) = " " THEN TrimStart(Tail(text)) ELSE text

RECURSIVE TrimEnd(_)
TrimEnd(text) ==
    IF text # <<>> /\ text[Len(text)] = " "
    THEN TrimEnd(SubSeq(text, 1, Len(text) - 1))
    ELSE text

Trim(text) == TrimEnd(TrimStart(text))

\* hosts.split(',').map(|h| h.trim().to_string()).collect()
\* Mutation: the pieces between commas are not trimmed.
RECURSIVE SplitHosts_untrimmed(_, _)
SplitHosts_untrimmed(text, piece) ==
    IF text = <<>> THEN << piece >>
    ELSE IF Head(text) = "," THEN << piece >> \o SplitHosts_untrimmed(Tail(text), <<>>)
    ELSE SplitHosts_untrimmed(Tail(text), Append(piece, Head(text)))

RECURSIVE SplitHosts(_, _)
SplitHosts(text, piece) ==
    IF text = <<>> THEN << Trim(piece) >>
    ELSE IF Head(text) = "," THEN << Trim(piece) >> \o SplitHosts(Tail(text), <<>>)
    ELSE SplitHosts(Tail(text), Append(piece, Head(text)))

\* parse_caddyfile_routes: routes in file order, [id, hosts, upstreams].
RECURSIVE ParseRoutes(_, _, _)
ParseRoutes(lines, current, routes) ==
    IF lines = <<>> THEN routes \o current
    ELSE LET line == Head(lines)
             rest == Tail(lines) IN
         IF line[1] = "start"
         THEN ParseRoutes(rest, << [id |-> <<"deep-app", line[2]>>, hosts |-> <<>>,
                                    upstreams |-> <<>>] >>, routes \o current)
         ELSE IF line = <<"end">> THEN ParseRoutes(rest, <<>>, routes \o current)
         ELSE IF current # <<>> /\ line[1] = "hosts" /\ Trim(line[2]) # <<>>
         THEN ParseRoutes(rest, << [current[1] EXCEPT
                                      !.hosts = SplitHosts(Trim(line[2]), <<>>)] >>, routes)
         ELSE IF current # <<>> /\ line[1] = "rp"
         THEN ParseRoutes(rest, << [current[1] EXCEPT !.upstreams = <<line[2]>>] >>, routes)
         ELSE ParseRoutes(rest, current, routes)

parse_caddyfile_routes(contents) == ParseRoutes(contents, <<>>, <<>>)

\* ------------------------------------------------------------------ retention
\* snapshot.deploy.retain.max(1)
RetainOf(snapshot) == IF snapshot.retain > 1 THEN snapshot.retain ELSE 1

\* Mutation: the loop stops one release late.
RECURSIVE KeepFill_one_more(_, _, _)
KeepFill_one_more(keep, list, retain) ==
    IF list = <<>> \/ Cardinality(keep) > retain THEN keep
    ELSE KeepFill_one_more(keep \cup {Head(list).id}, Tail(list), retain)

\* The loop filling `keep` from the newest release on.
RECURSIVE KeepFill(_, _, _)
KeepFill(keep, list, retain) ==
    IF list = <<>> \/ Cardinality(keep) >= retain THEN keep
    ELSE KeepFill(keep \cup {Head(list).id}, Tail(list), retain)

RECURSIVE IdsNotIn(_, _)
IdsNotIn(list, keep) ==
    IF list = <<>> THEN <<>>
    ELSE IF Head(list).id \in keep THEN IdsNotIn(Tail(list), keep)
    ELSE <<Head(list).id>> \o IdsNotIn(Tail(list), keep)

\* enforce_retention up to its pruning loop: the releases it will prune, in order.
RetentionPlan(rels, cr, app_id, snapshot) ==
    LET retain == RetainOf(snapshot)
        list == list_releases(rels, app_id) IN
    IF Len(list) <= retain THEN <<>>
    ELSE IdsNotIn(list, KeepFill(current_release_id(cr, app_id), list, retain))

\* ------------------------------------------------------------------ state
VARIABLES
    releases,          \* table releases: [id, app_id, created_at, status, config_json]
    deployments,       \* table deployments: [id, app_id, from, to, status, error]
    current_releases,  \* table current_releases: [app_id, release_id]
    caddyfile,         \* the proxy file, as lines
    caddy_bak,         \* the .bak file beside it
    unit_files,        \* quadlet files on disk, by container name
    running,           \* units the init system has active, by container name
    next_release,      \* the next release id Ulid::new() gives a deploy
    next_deployment,   \* the next deployment id
    pc,                \* where the running handler stands; "idle" between commands
    op,                \* the running handler's arguments and locals
    effects,           \* what the running handler has issued so far, in order
    addons,            \* table addons: [id, name, config]
    bindings,          \* table bindings: [app_id, addon_id, env]
    RUNNER,            \* the process-global runner slot
    TEST_LOCK,         \* the mutex of set_runner_for_tests: its holder, poisoned or not
    threads            \* each test thread: where it stands and the guard it holds

vars == <<releases, deployments, current_releases, caddyfile, caddy_bak,
          unit_files, running, next_release, next_deployment, pc, op, effects,
          addons, bindings, RUNNER, TEST_LOCK, threads>>

catalog == <<releases, deployments, current_releases>>
host == <<caddyfile, caddy_bak, unit_files, running>>
ids == <<next_release, next_deployment>>
addon_tables == <<addons, bindings>>
runner_state == <<RUNNER, TEST_LOCK, threads>>

\* runner.rs 13 and 28: the slot is initialised with the real runner.
RealRunner == "RealRunner"

\* The test threads of the process.
Threads == {"t1", "t2", "t3"}

\* A thread outside set_runner_for_tests, holding no guard.
IdleThread == [pc |-> "idle", runner |-> None, previous |-> None, panicking |-> FALSE]

\* runner.rs 24-29: RUNNER holds RealRunner, TEST_LOCK is free and not poisoned.
RunnerInit ==
    /\ RUNNER = RealRunner
    /\ TEST_LOCK = [holder |-> None, poisoned |-> FALSE]
    /\ threads = [t \in Threads |-> IdleThread]

NoOp ==
    [kind |-> "none", app |-> "", release_id |-> 0, deployment_id |-> 0,
     from_release_id |-> None, snapshot |-> NoSnap, record_only |-> FALSE,
     skip_proxy |-> FALSE, dry_run |-> FALSE, failed_at |-> "none",
     result |-> "none", before |-> None,
     plan |-> <<>>, retention_err |-> FALSE, image_ref |-> <<>>]

Init ==
    /\ releases = {}
    /\ deployments = {}
    /\ current_releases = {}
    /\ caddyfile = <<>>
    /\ caddy_bak = <<>>
    /\ unit_files = {}
    /\ running = {}
    /\ next_release = 1
    /\ next_deployment = 1
    /\ pc = "idle"
    /\ op = NoOp
    /\ effects = <<>>
    /\ addons = {}
    /\ bindings = {}
    /\ RunnerInit

\* The handler returns: Ok(()) or the error of the step `failed_at`.
ReturnsOk == [op EXCEPT !.result = "ok"]
ReturnsErr(step) == [op EXCEPT !.result = "err", !.failed_at = step]

\* ------------------------------------------------------------------ handle_deploy
DeployModes == {"full", "skip_proxy", "record_only"}

\* The deploys tried: every mode and config for the first app; the second
\* app, whose releases are the ones that are not the first app's, is
\* deployed record-only.
DeployInputs ==
    { in \in [app : Apps, cfg : AppConfigs, mode : DeployModes] :
        in.app = "a1" \/ (in.mode = "record_only" /\ in.cfg.retain = 0) }

\* Lines 63-93 fail: unknown app, app.toml, image ref, Runtime::detect.
DeployResolveFails(app) ==
    /\ pc = "idle"
    /\ pc' = "done"
    /\ op' = [NoOp EXCEPT !.kind = "deploy", !.app = app, !.result = "err",
                          !.failed_at = "resolve",
                          !.before = current_release_id(current_releases, app)]
    /\ effects' = <<>>
    /\ UNCHANGED <<addon_tables, runner_state, catalog, host, ids>>

\* Lines 63-103: dry_run prints the plan and returns; the resolution before
\* it has pulled the image unless record_only, skip_pull or a digest was given.
DeployDryRun(app) ==
    /\ pc = "idle"
    /\ pc' = "done"
    /\ op' = [NoOp EXCEPT !.kind = "deploy", !.app = app, !.dry_run = TRUE,
                          !.result = "ok",
                          !.before = current_release_id(current_releases, app)]
    /\ \E pulls \in BOOLEAN : effects' = IF pulls THEN << <<"pull_image">> >> ELSE <<>>
    /\ UNCHANGED <<addon_tables, runner_state, catalog, host, ids>>

\* Lines 63-118: snapshot resolved, ids drawn, from_release_id read.  The
\* deploys tried give no digest and no skip_pull: unless record_only, the
\* digest is resolved by pulling the image (lines 91-95).
DeployResolved(app, cfg, mode) ==
    /\ pc = "idle"
    /\ next_release <= MaxReleases
    /\ next_deployment <= MaxDeployments
    /\ pc' = "persist"
    /\ op' = [NoOp EXCEPT !.kind = "deploy", !.app = app,
                          !.release_id = next_release,
                          !.deployment_id = next_deployment,
                          !.snapshot = apply_addon_env(to_snapshot(cfg,
                              addon_snapshots_for_app(addons, bindings, app))),
                          !.record_only = (mode = "record_only"),
                          !.skip_proxy = (mode = "skip_proxy"),
                          !.from_release_id = current_release_id(current_releases, app),
                          !.before = current_release_id(current_releases, app)]
    /\ effects' = IF mode # "record_only" THEN << <<"pull_image">> >> ELSE <<>>
    /\ UNCHANGED <<addon_tables, runner_state, catalog, host, ids>>

\* Mutation: the persist transaction also moves the current-release pointer.
DeployPersist_sets_current(ok) ==
    /\ pc = "persist"
    /\ op.kind = "deploy"
    /\ IF ok
       THEN /\ releases' = insert_release(releases,
                    [id |-> op.release_id, app_id |-> op.app,
                     created_at |-> op.release_id, status |-> "pending",
                     config_json |-> op.snapshot])
            /\ deployments' = insert_deployment(deployments, op.deployment_id, op.app,
                    op.from_release_id, Some(op.release_id), "pending", None)
            /\ current_releases' = set_current_release(current_releases, op.app, op.release_id)
            /\ next_release' = next_release + 1
            /\ next_deployment' = next_deployment + 1
            /\ pc' = IF op.record_only THEN "promote" ELSE "start"
            /\ op' = op
            /\ effects' = Append(effects, <<"commit_persist">>)
       ELSE /\ pc' = "done"
            /\ op' = ReturnsErr("persist")
            /\ effects' = effects
            /\ UNCHANGED <<releases, deployments, current_releases, ids>>
    /\ UNCHANGED <<addon_tables, runner_state, host>>

\* Lines 120-131: one transaction inserts the pending release and deployment.
DeployPersist(ok) ==
    /\ pc = "persist"
    /\ op.kind = "deploy"
    /\ IF ok
       THEN /\ releases' = insert_release(releases,
                    [id |-> op.release_id, app_id |-> op.app,
                     created_at |-> op.release_id, status |-> "pending",
                     config_json |-> op.snapshot])
            /\ deployments' = insert_deployment(deployments, op.deployment_id, op.app,
                    op.from_release_id, Some(op.release_id), "pending", None)
            /\ next_release' = next_release + 1
            /\ next_deployment' = next_deployment + 1
            /\ pc' = IF op.record_only THEN "promote" ELSE "start"
            /\ op' = op
            /\ effects' = Append(effects, <<"commit_persist">>)
       ELSE /\ pc' = "done"
            /\ op' = ReturnsErr("persist")
            /\ effects' = effects
            /\ UNCHANGED <<releases, deployments, ids>>
    /\ UNCHANGED <<addon_tables, runner_state, current_releases, host>>

\* ------------------------------------------------------------------ handle_rollback

\* Mutation: the refused rollback leaves a failed deployment row.
RollbackResolveFails_records_deployment(app, target) ==
    /\ pc = "idle"
    /\ \A r \in get_release_by_id(releases, target) : r.app_id # app
    /\ pc' = "done"
    /\ op' = [NoOp EXCEPT !.kind = "rollback", !.app = app, !.release_id = target,
                          !.result = "err", !.failed_at = "resolve",
                          !.before = current_release_id(current_releases, app)]
    /\ deployments' = insert_deployment(deployments, next_deployment, app,
                                        current_release_id(current_releases, app),
                                        Some(target), "failed", Some("error"))
    /\ effects' = <<>>
    /\ UNCHANGED <<addon_tables, runner_state, releases, current_releases, host, ids>>

\* Lines 328-340 fail: release not found, or of another app.
RollbackResolveFails(app, target) ==
    /\ pc = "idle"
    /\ \A r \in get_release_by_id(releases, target) : r.app_id # app
    /\ pc' = "done"
    /\ op' = [NoOp EXCEPT !.kind = "rollback", !.app = app, !.release_id = target,
                          !.result = "err", !.failed_at = "resolve",
                          !.before = current_release_id(current_releases, app)]
    /\ effects' = <<>>
    /\ UNCHANGED <<addon_tables, runner_state, catalog, host, ids>>

\* Lines 343-346: dry_run prints the plan and returns.
RollbackDryRun(app, target) ==
    /\ pc = "idle"
    /\ \E r \in get_release_by_id(releases, target) :
         /\ r.app_id = app
         /\ op' = [NoOp EXCEPT !.kind = "rollback", !.app = app, !.release_id = target,
                               !.dry_run = TRUE, !.result = "ok",
                               !.before = current_release_id(current_releases, app)]
    /\ pc' = "done"
    /\ effects' = <<>>
    /\ UNCHANGED <<addon_tables, runner_state, catalog, host, ids>>

\* Mutation: the rollback takes the snapshot of the release that is current.
RollbackResolved_current_snapshot(app, target) ==
    /\ pc = "idle"
    /\ next_deployment <= MaxDeployments
    /\ \E r \in get_release_by_id(releases, target) :
         /\ r.app_id = app
         /\ \E c \in { x \in releases : current_release_id(current_releases, app) \in {{x.id}, {}} } :
              op' = [NoOp EXCEPT !.kind = "rollback", !.app = app, !.release_id = target,
                                 !.deployment_id = next_deployment,
                                 !.snapshot = c.config_json,
                                 !.from_release_id = current_release_id(current_releases, app),
                                 !.before = current_release_id(current_releases, app)]
    /\ pc' = "persist"
    /\ effects' = <<>>
    /\ UNCHANGED <<addon_tables, runner_state, catalog, host, ids>>

\* Lines 328-349: target loaded, its snapshot reused, from_release_id read.
RollbackResolved(app, target) ==
    /\ pc = "idle"
    /\ next_deployment <= MaxDeployments
    /\ \E r \in get_release_by_id(releases, target) :
         /\ r.app_id = app
         /\ op' = [NoOp EXCEPT !.kind = "rollback", !.app = app, !.release_id = target,
                               !.deployment_id = next_deployment,
                               !.snapshot = r.config_json,
                               !.from_release_id = current_release_id(current_releases, app),
                               !.before = current_release_id(current_releases, app)]
    /\ pc' = "persist"
    /\ effects' = <<>>
    /\ UNCHANGED <<addon_tables, runner_state, catalog, host, ids>>

\* Lines 350-360: one transaction inserts the pending deployment.
RollbackPersist(ok) ==
    /\ pc = "persist"
    /\ op.kind = "rollback"
    /\ IF ok
       THEN /\ deployments' = insert_deployment(deployments, op.deployment_id, op.app,
                    op.from_release_id, Some(op.release_id), "pending", None)
            /\ next_deployment' = next_deployment + 1
            /\ pc' = "detect"
            /\ op' = op
            /\ effects' = Append(effects, <<"commit_persist">>)
       ELSE /\ pc' = "done"
            /\ op' = ReturnsErr("persist")
            /\ effects' = effects
            /\ UNCHANGED <<deployments, next_deployment>>
    /\ UNCHANGED <<addon_tables, runner_state, releases, current_releases, next_release, host>>

\* Line 362: Runtime::detect()? after the deployment row is committed.
RollbackDetect(ok) ==
    /\ pc = "detect"
    /\ pc' = IF ok THEN "start" ELSE "done"
    /\ op' = IF ok THEN op ELSE ReturnsErr("detect")
    /\ UNCHANGED <<addon_tables, runner_state, catalog, host, ids, effects>>

\* ------------------------------------------------------------------ shared steps
\* start_app_quadlet: ensure network, write the unit file, daemon-reload,
\* enable --now.  The failure modelled is the one of enable --now: the file
\* is written and no unit is active.
StartOutcomes == {"ok", "enable_fails"}

start_app_quadlet(outcome) ==
    LET name == app_container_name(op.app, op.release_id) IN
    [files |-> unit_files \cup {name},
     active |-> IF outcome = "ok" THEN running \cup {name} ELSE running,
     issued |-> << <<"ensure_network">>, <<"write_unit", op.release_id>>,
                   <<"daemon_reload">>, <<"enable", op.release_id>> >>]

\* stop_app_release: systemctl stop of the release's unit when its row is
\* found; the caller ignores the outcome.
stop_app_release(active, rels, app, release_id, stops) ==
    IF get_release_by_id(rels, release_id) # {} /\ stops
    THEN active \ {app_container_name(app, release_id)}
    ELSE active

\* The systemctl stop that stop_app_release issues when the row is found.
stop_issued(rels, release_id) ==
    IF get_release_by_id(rels, release_id) # {} THEN << <<"stop", release_id>> >> ELSE <<>>

\* deploy.rs 146-148 and 362-370.
Start(outcome) ==
    /\ pc = "start"
    /\ unit_files' = start_app_quadlet(outcome).files
    /\ running' = start_app_quadlet(outcome).active
    /\ effects' = effects \o start_app_quadlet(outcome).issued
    /\ pc' = IF outcome = "ok" THEN "health" ELSE "compensate"
    /\ op' = IF outcome = "ok" THEN op ELSE [op EXCEPT !.failed_at = "start"]
    /\ UNCHANGED <<addon_tables, runner_state, catalog, caddyfile, caddy_bak, ids>>

\* deploy.rs 155-158 and 375: healthcheck_with_config on the new container.
Health(ok) ==
    /\ pc = "health"
    /\ pc' = IF ok THEN "route" ELSE "compensate"
    /\ op' = IF ok THEN op ELSE [op EXCEPT !.failed_at = "health"]
    /\ effects' = Append(effects, <<"health_probe", op.release_id>>)
    /\ UNCHANGED <<addon_tables, runner_state, catalog, host, ids>>

\* CaddyFile::upsert_route.  bak_failed: the write of the backup fails;
\* write_failed: the write of the proxy file fails and leaves it as it was;
\* reload_failed: the reload fails, the previous contents are restored and
\* the second reload succeeds; rollback_reload_failed: the same with the
\* second reload failing; restore_failed: the reload fails and so does the
\* restoring write.
UpsertOutcomes ==
    {"ok", "bak_failed", "write_failed", "reload_failed", "rollback_reload_failed",
     "restore_failed"}

\* The outcomes tried inside the handlers: one per result the handler can see
\* (Ok, error with the file as it was, error with the file updated).
HandlerUpsertOutcomes == {"ok", "bak_failed", "reload_failed", "restore_failed"}

\* Mutation: the reload is issued before the proxy file is written.
upsert_issued_reload_first(outcome) ==
    CASE outcome = "ok" ->
           << <<"write_bak", "ok">>, <<"reload", "ok">>, <<"write_file", "ok">> >>
      [] outcome = "bak_failed" -> << <<"write_bak", "err">> >>
      [] OTHER -> << <<"write_bak", "ok">>, <<"write_file", "err">> >>

\* What upsert_route issues, in order, with the result of each.
upsert_issued(outcome) ==
    CASE outcome = "ok" ->
           << <<"write_bak", "ok">>, <<"write_file", "ok">>, <<"reload", "ok">> >>
      [] outcome = "bak_failed" -> << <<"write_bak", "err">> >>
      [] outcome = "write_failed" -> << <<"write_bak", "ok">>, <<"write_file", "err">> >>
      [] outcome = "reload_failed" ->
           << <<"write_bak", "ok">>, <<"write_file", "ok">>, <<"reload", "err">>,
              <<"restore_file", "ok">>, <<"reload", "ok">> >>
      [] outcome = "rollback_reload_failed" ->
           << <<"write_bak", "ok">>, <<"write_file", "ok">>, <<"reload", "err">>,
              <<"restore_file", "ok">>, <<"reload", "err">> >>
      [] outcome = "restore_failed" ->
           << <<"write_bak", "ok">>, <<"write_file", "ok">>, <<"reload", "err">>,
              <<"restore_file", "err">> >>

\* Mutation: only a list that starts with an empty host counts as empty.
domains_is_empty_first_host(snapshot) ==
    snapshot.domains # <<>> /\ snapshot.domains[1] = <<>>

\* proxy.rs 47: snapshot.domains.is_empty().
domains_is_empty(snapshot) == snapshot.domains = <<>>

\* Mutation: after a failed reload the updated file is left in place.
upsert_route_no_restore(contents, bak, app, release_id, snapshot, outcome) ==
    IF domains_is_empty(snapshot)
    THEN [ok |-> FALSE, file |-> contents, bak |-> bak, issued |-> <<>>, read |-> FALSE]
    ELSE IF outcome = "bak_failed"
    THEN [ok |-> FALSE, file |-> contents, bak |-> bak, issued |-> upsert_issued(outcome),
          read |-> TRUE]
    ELSE [ok |-> outcome = "ok",
          read |-> TRUE,
          file |-> IF outcome = "write_failed" THEN contents
                   ELSE upsert_caddyfile_block(contents, app, snapshot.domains,
                                               Upstream(app, release_id, snapshot.port)),
          bak |-> contents,
          issued |-> upsert_issued(outcome)]

\* upsert_route: `read` tells whether the call got as far as reading the
\* proxy file (proxy.rs 55-59), which comes after the check of the domains.
upsert_route(contents, bak, app, release_id, snapshot, outcome) ==
    IF domains_is_empty(snapshot)
    THEN [ok |-> FALSE, file |-> contents, bak |-> bak, issued |-> <<>>, read |-> FALSE]
    ELSE IF outcome = "bak_failed"
    THEN [ok |-> FALSE, file |-> contents, bak |-> bak, issued |-> upsert_issued(outcome),
          read |-> TRUE]
    ELSE LET updated == upsert_caddyfile_block(contents, app, snapshot.domains,
                            Upstream(app, release_id, snapshot.port)) IN
         [ok |-> outcome = "ok",
          read |-> TRUE,
          file |-> IF outcome \in {"ok", "restore_failed"} THEN updated ELSE contents,
          bak |-> contents,
          issued |-> upsert_issued(outcome)]

\* Mutation: a routed deploy goes on to stop the previous unit before the
\* current-release pointer is set.
Route_cleans_first(outcome) ==
    /\ pc = "route"
    /\ IF op.kind = "deploy" /\ op.skip_proxy
       THEN /\ pc' = "promote"
            /\ op' = op
            /\ UNCHANGED <<caddyfile, caddy_bak, effects>>
       ELSE LET res == upsert_route(caddyfile, caddy_bak, op.app, op.release_id,
                                    op.snapshot, outcome) IN
            /\ caddyfile' = res.file
            /\ caddy_bak' = res.bak
            /\ effects' = effects \o res.issued
            /\ pc' = IF res.ok THEN "clean" ELSE "compensate"
            /\ op' = IF res.ok THEN op ELSE [op EXCEPT !.failed_at = "route"]
    /\ UNCHANGED <<addon_tables, runner_state, catalog, unit_files, running, ids>>

\* deploy.rs 165-166 and 382.
Route(outcome) ==
    /\ pc = "route"
    /\ IF op.kind = "deploy" /\ op.skip_proxy
       THEN /\ pc' = "promote"
            /\ op' = op
            /\ UNCHANGED <<caddyfile, caddy_bak, effects>>
       ELSE LET res == upsert_route(caddyfile, caddy_bak, op.app, op.release_id,
                                    op.snapshot, outcome) IN
            /\ caddyfile' = res.file
            /\ caddy_bak' = res.bak
            /\ effects' = effects \o res.issued
            /\ pc' = IF res.ok THEN "promote" ELSE "compensate"
            /\ op' = IF res.ok THEN op ELSE [op EXCEPT !.failed_at = "route"]
    /\ UNCHANGED <<addon_tables, runner_state, catalog, unit_files, running, ids>>

\* cli/mod.rs 207-221: one proxy_error row with the app, the release, the
\* action and the error; `let _ =` drops the result of the insert.
record_proxy_error(app_name, release_id, action, err, inserted) ==
    << <<"insert_event", "proxy_error",
         [app |-> app_name, release_id |-> release_id, action |-> action, error |-> err],
         IF inserted THEN "ok" ELSE "err">> >>

\* Mutation: only a deploy stops the unit it started.
stops_on_failure_deploy_only(kind, failed_at) ==
    kind = "deploy" /\ failed_at \in {"health", "route"}

\* The error branches that call stop_app_release on the release just
\* started: health and route, of a deploy (deploy.rs 159, 167) and of a
\* rollback (deploy.rs 377, 383); the start branch stops nothing.
stops_on_failure(kind, failed_at) == failed_at \in {"health", "route"}

\* Mutation: every error branch records a proxy_error event.
Compensate_records_always(stops, inserted) ==
    /\ pc = "compensate"
    /\ running' = IF stops_on_failure(op.kind, op.failed_at)
                  THEN stop_app_release(running, releases, op.app, op.release_id, stops)
                  ELSE running
    /\ releases' = IF op.kind = "deploy"
                   THEN set_release_status(releases, op.release_id, "failed")
                   ELSE releases
    /\ deployments' = update_deployment_status(deployments, op.deployment_id,
                                               "failed", Some("error"))
    /\ effects' = (IF stops_on_failure(op.kind, op.failed_at)
                   THEN effects \o stop_issued(releases, op.release_id)
                   ELSE effects)
                  \o record_proxy_error(op.app, op.release_id, op.kind, op.failed_at, inserted)
    /\ pc' = "done"
    /\ op' = [op EXCEPT !.result = "err"]
    /\ UNCHANGED <<addon_tables, runner_state, current_releases, caddyfile, caddy_bak, unit_files, ids>>

\* The error branches: deploy.rs 149-153, 158-163, 166-172 and 371-372,
\* 377-379, 383-386.  Only the route branch calls record_proxy_error, after
\* the rows are marked; the error returned is the one of the failed step.
Compensate(stops, inserted) ==
    /\ pc = "compensate"
    /\ running' = IF stops_on_failure(op.kind, op.failed_at)
                  THEN stop_app_release(running, releases, op.app, op.release_id, stops)
                  ELSE running
    /\ releases' = IF op.kind = "deploy"
                   THEN set_release_status(releases, op.release_id, "failed")
                   ELSE releases
    /\ deployments' = update_deployment_status(deployments, op.deployment_id,
                                               "failed", Some("error"))
    /\ effects' = (IF stops_on_failure(op.kind, op.failed_at)
                   THEN effects \o stop_issued(releases, op.release_id)
                   ELSE effects)
                  \o (IF op.failed_at = "route"
                      THEN record_proxy_error(op.app, op.release_id, op.kind,
                                              op.failed_at, inserted)
                      ELSE <<>>)
    /\ pc' = "done"
    /\ op' = [op EXCEPT !.result = "err"]
    /\ UNCHANGED <<addon_tables, runner_state, current_releases, caddyfile, caddy_bak, unit_files, ids>>

\* deploy.rs 134-136, 175-177 and 389-391: the transaction setting current.
Promote ==
    /\ pc = "promote"
    /\ current_releases' = set_current_release(current_releases, op.app, op.release_id)
    /\ effects' = Append(effects, <<"set_current", op.release_id>>)
    /\ pc' = "activate"
    /\ op' = op
    /\ UNCHANGED <<addon_tables, runner_state, releases, deployments, host, ids>>

\* Mutation: the activated release takes the snapshot of the app's newest
\* release, as if the app's present config were stored again.
Activate_stores_newest_snapshot ==
    /\ pc = "activate"
    /\ releases' = LET newest == list_releases(releases, op.app)[1] IN
                   { IF r.id = op.release_id
                     THEN [r EXCEPT !.status = "active", !.config_json = newest.config_json]
                     ELSE r : r \in releases }
    /\ deployments' = update_deployment_status(deployments, op.deployment_id,
                                               "succeeded", None)
    /\ pc' = IF op.record_only THEN "retention" ELSE "clean"
    /\ op' = op
    /\ UNCHANGED <<addon_tables, runner_state, current_releases, host, ids, effects>>

\* deploy.rs 137-138, 178-179 and 392-393: release active, deployment succeeded.
Activate ==
    /\ pc = "activate"
    /\ releases' = set_release_status(releases, op.release_id, "active")
    /\ deployments' = update_deployment_status(deployments, op.deployment_id,
                                               "succeeded", None)
    /\ pc' = IF op.record_only THEN "retention" ELSE "clean"
    /\ op' = op
    /\ UNCHANGED <<addon_tables, runner_state, current_releases, host, ids, effects>>

\* deploy.rs 181-183 and 395-399: stop the previous release's unit.
Clean(stops) ==
    /\ pc = "clean"
    /\ running' = IF op.from_release_id # None
                     /\ (op.kind = "deploy" \/ op.from_release_id # Some(op.release_id))
                  THEN LET old == CHOOSE x \in op.from_release_id : TRUE IN
                       stop_app_release(running, releases, op.app, old, stops)
                  ELSE running
    /\ effects' = IF op.from_release_id # None
                     /\ (op.kind = "deploy" \/ op.from_release_id # Some(op.release_id))
                  THEN LET old == CHOOSE x \in op.from_release_id : TRUE IN
                       effects \o stop_issued(releases, old)
                  ELSE effects
    /\ pc' = "retention"
    /\ op' = op
    /\ UNCHANGED <<addon_tables, runner_state, catalog, caddyfile, caddy_bak, unit_files, ids>>

\* enforce_retention 448-463: the releases to prune; a failing read of the
\* catalog ends retention with an error the caller only prints.
EnforceRetention(ok) ==
    /\ pc = "retention"
    /\ pc' = "prune"
    /\ op' = IF ok
             THEN [op EXCEPT !.plan = RetentionPlan(releases, current_releases,
                                                    op.app, op.snapshot)]
             ELSE [op EXCEPT !.retention_err = TRUE]
    /\ UNCHANGED <<addon_tables, runner_state, catalog, host, ids, effects>>

\* prune_release on the next release of the plan: stop and disable the unit,
\* remove its file, delete its deployment rows, delete its row.
PruneRelease(stops) ==
    /\ pc = "prune"
    /\ op.plan # <<>>
    /\ LET id == Head(op.plan)
           name == app_container_name(op.app, id) IN
       /\ running' = IF stops THEN running \ {name} ELSE running
       /\ unit_files' = unit_files \ {name}
       /\ deployments' = delete_deployments_for_release(deployments, id)
       /\ releases' = delete_release(releases, id)
       /\ op' = [op EXCEPT !.plan = Tail(op.plan)]
       /\ effects' = effects \o << <<"stop", id>>, <<"disable", id>>,
                                    <<"remove_unit", id>>, <<"daemon_reload">> >>
    /\ pc' = "prune"
    /\ UNCHANGED <<addon_tables, runner_state, current_releases, caddyfile, caddy_bak, ids>>

\* Mutation: an error of the retention run is returned by the handler.
Finish_returns_retention_error ==
    /\ pc = "prune"
    /\ op.plan = <<>>
    /\ pc' = "done"
    /\ op' = IF op.retention_err THEN ReturnsErr("retention") ELSE ReturnsOk
    /\ UNCHANGED <<addon_tables, runner_state, catalog, host, ids, effects>>

\* deploy.rs 139-143, 184-189 and 400-405: retention is over, the handler returns Ok.
Finish ==
    /\ pc = "prune"
    /\ op.plan = <<>>
    /\ pc' = "done"
    /\ op' = ReturnsOk
    /\ UNCHANGED <<addon_tables, runner_state, catalog, host, ids, effects>>

\* The command has returned; the next one starts from a fresh process.
Return ==
    /\ pc = "done"
    /\ pc' = "idle"
    /\ op' = NoOp
    /\ effects' = <<>>
    /\ UNCHANGED <<addon_tables, runner_state, catalog, host, ids>>

Next ==
    \/ \E app \in Apps : DeployResolveFails(app)
    \/ \E app \in Apps : DeployDryRun(app)
    \/ \E in \in DeployInputs : DeployResolved(in.app, in.cfg, in.mode)
    \/ \E ok \in BOOLEAN : DeployPersist(ok)
    \/ \E app \in Apps, target \in 1..MaxReleases : RollbackResolveFails(app, target)
    \/ \E app \in Apps, target \in 1..MaxReleases : RollbackDryRun(app, target)
    \/ \E app \in Apps, target \in 1..MaxReleases : RollbackResolved(app, target)
    \/ \E ok \in BOOLEAN : RollbackPersist(ok)
    \/ \E ok \in BOOLEAN : RollbackDetect(ok)
    \/ \E outcome \in StartOutcomes : Start(outcome)
    \/ \E ok \in BOOLEAN : Health(ok)
    \/ \E outcome \in HandlerUpsertOutcomes : Route(outcome)
    \/ \E stops \in BOOLEAN, inserted \in BOOLEAN : Compensate(stops, inserted)
    \/ Promote
    \/ Activate
    \/ \E stops \in BOOLEAN : Clean(stops)
    \/ \E ok \in BOOLEAN : EnforceRetention(ok)
    \/ \E stops \in BOOLEAN : PruneRelease(stops)
    \/ Finish
    \/ Return

Spec == Init /\ [][Next]_vars

\* ------------------------------------------------------------------ the route step alone
\* The route step of the handlers on a proxy file the operator has edited:
\* the file starts as any of ProxyFiles and upsert_route is applied to it
\* with the arguments a deploy or a rollback passes.

\* An unmanaged site block, and a managed block left by an earlier release.
Site == << <<"hosts", <<"site">>>>, <<"text", "respond">>, <<"close">> >>

StaleBlock(app) == RenderBlock(app, << <<"old">> >>, <<"old", 3000>>)

ProxyFiles ==
    { <<>>,
      Site,
      Site \o << <<"blank">> >>,
      Site \o << <<"blank">>, <<"blank">> >>,
      StaleBlock("a1") \o << <<"blank">> >> \o Site,
      StaleBlock("a1") \o StaleBlock("a1"),
      Site \o << <<"blank">> >> \o StaleBlock("a2"),
      StaleBlock("a3") \o StaleBlock("a1") \o Site \o StaleBlock("a2")
          \o << <<"blank">> >> }

\* Snapshots reaching the route step: those of AppConfigs, one with a host
\* that holds a comma, one with no domain.
ProxyConfigs ==
    AppConfigs \cup
    { [port |-> 8080, domains |-> << <<"h1", ",", "h2">> >>, retain |-> 0,
       env |-> EmptyEnv],
      [port |-> 8080, domains |-> <<>>, retain |-> 0, env |-> EmptyEnv] }

ProxyReleases == {1, 2}

ProxyCalls ==
    { c \in [kind : {"deploy", "rollback"}, app : Apps, release_id : ProxyReleases,
             cfg : ProxyConfigs, skip_proxy : BOOLEAN] :
        /\ (c.skip_proxy \/ c.kind = "rollback" \/ c.app # "a1") =>
               (c.release_id = 1 /\ c.cfg.retain = 0 /\ c.cfg.domains # <<>>
                /\ c.cfg \in AppConfigs)
        /\ c.skip_proxy => (c.kind = "deploy" /\ c.app = "a1")
        /\ c.app # "a1" => c.kind = "deploy" }

ProxyInit ==
    /\ releases = {}
    /\ deployments = {}
    /\ current_releases = {}
    /\ caddyfile \in ProxyFiles
    /\ caddy_bak = <<>>
    /\ unit_files = {}
    /\ running = {}
    /\ next_release = 1
    /\ next_deployment = 1
    /\ pc = "idle"
    /\ op = NoOp
    /\ effects = <<>>
    /\ addons = {}
    /\ bindings = {}
    /\ RunnerInit

\* deploy.rs 165 and 382: a handler stands before its route step.
AtRouteStep(c) ==
    /\ pc = "idle"
    /\ pc' = "route"
    /\ op' = [NoOp EXCEPT !.kind = c.kind, !.app = c.app, !.release_id = c.release_id,
                          !.snapshot = to_snapshot(c.cfg, <<>>), !.skip_proxy = c.skip_proxy]
    /\ effects' = <<>>
    /\ UNCHANGED <<addon_tables, runner_state, catalog, host, ids>>

\* The route step is taken once more with the same arguments, as by a
\* rollback to the release a deploy has just routed.
RouteAgain ==
    /\ pc = "promote"
    /\ effects = upsert_issued("ok")
    /\ pc' = "route"
    /\ UNCHANGED <<addon_tables, runner_state, catalog, host, ids, op, effects>>

\* The handler goes on; the proxy file is not written again.
RouteReturns ==
    /\ pc \in {"promote", "compensate"}
    /\ pc' = "idle"
    /\ op' = NoOp
    /\ effects' = <<>>
    /\ UNCHANGED <<addon_tables, runner_state, catalog, host, ids>>

ProxyNext ==
    \/ \E c \in ProxyCalls : AtRouteStep(c)
    \/ \E outcome \in UpsertOutcomes : Route(outcome)
    \/ RouteAgain
    \/ RouteReturns

ProxySpec == ProxyInit /\ [][ProxyNext]_vars

\* ------------------------------------------------------------------ observers
AtRest == pc \in {"idle", "done"}

\* The handler that has just returned: Ok after doing its work, or an error.
Succeeded == pc = "done" /\ op.result = "ok" /\ ~op.dry_run
Failed == pc = "done" /\ op.result = "err"

Current(app) == current_release_id(current_releases, app)

ReleasesOf(app) == { r \in releases : r.app_id = app }

\* The upstreams of the app's managed blocks, as list_routes reports them.
RoutedUpstreams(app) ==
    LET routes == parse_caddyfile_routes(caddyfile) IN
    { routes[i].upstreams : i \in { j \in DOMAIN routes : routes[j].id = <<"deep-app", app>> } }

\* The releases those upstreams name, and the releases whose unit is active.
RoutedReleases(app) ==
    { u[1][1][3] : u \in { v \in RoutedUpstreams(app) : v # <<>> } }

RunningReleases(app) == { n[3] : n \in { x \in running : x[2] = app } }

\* ------------------------------------------------------------------ claims

C2_FailureKeepsCurrent ==
    (Failed /\ op.failed_at \in {"resolve", "persist", "detect", "start", "health", "route"})
        => Current(op.app) = op.before

C2_Witness ==
    /\ Failed /\ op.failed_at = "route" /\ op.kind = "deploy"
    /\ op.before # None
    /\ Current(op.app) = op.before

\* C3: in every state there is at most one current-release row per app, and
\* it references an existing release row of that app.
C3_CurrentRowWellFormed ==
    /\ \A app \in Apps : Cardinality({ x \in current_releases : x.app_id = app }) <= 1
    /\ \A x \in current_releases :
         \E r \in releases : r.id = x.release_id /\ r.app_id = x.app_id

\* Retention has pruned a release of an app whose pointer was set twice,
\* and both apps have a current release.
C3_Witness ==
    /\ pc = "done" /\ op.kind = "deploy" /\ op.before # None
    /\ \A app \in Apps : Current(app) # None
    /\ \E id \in 1..(next_release - 1) : get_release_by_id(releases, id) = {}

\* C4: after a successful deploy (full, skip_proxy or record-only) the app's
\* current release is the release the deploy created, it is not the release
\* that was current before, and its status is active.
C4_DeployPromotesNewRelease ==
    (Succeeded /\ op.kind = "deploy") =>
        /\ Current(op.app) = {op.release_id}
        /\ op.before # {op.release_id}
        /\ \E r \in releases : r.id = op.release_id /\ r.status = "active"

C4_Witness ==
    /\ Succeeded /\ op.kind = "deploy" /\ op.record_only
    /\ op.before # None
    /\ Current(op.app) = {op.release_id}

\* C5: after a successful rollback to t the app's current release is t, t is
\* active, and the app's managed block routes to deep-app-<app>-<t> on the
\* port of t's stored snapshot.
C5_RollbackPromotesTarget ==
    (Succeeded /\ op.kind = "rollback") =>
        /\ Current(op.app) = {op.release_id}
        /\ \E t \in releases :
             /\ t.id = op.release_id
             /\ t.status = "active"
             /\ RoutedUpstreams(op.app) =
                   { << << <<"deep-app", op.app, t.id>>, t.config_json.port >> >> }

\* The rollback switched between releases recorded with different ports.
C5_Witness ==
    /\ Succeeded /\ op.kind = "rollback"
    /\ \E t \in releases, c \in releases :
         /\ t.id = op.release_id /\ {c.id} = op.before /\ c.id # t.id
         /\ c.config_json.port # t.config_json.port
         /\ RoutedUpstreams(op.app) =
               { << << <<"deep-app", op.app, t.id>>, t.config_json.port >> >> }


\* C6 as stated: when a deploy or rollback returns Ok, retention included,
\* exactly one deployment row of that invocation exists; its status is
\* succeeded, its from is the current release before the call and its to is
\* the current release after it.
C6_OneSucceededDeploymentRow ==
    Succeeded =>
        LET rows == { d \in deployments : d.id = op.deployment_id } IN
        /\ Cardinality(rows) = 1
        /\ \A d \in rows :
             /\ d.status = "succeeded"
             /\ d.app_id = op.app
             /\ d.from = op.before
             /\ d.to = Current(op.app)

\* C7 as stated: when a handler that inserted a pending deployment row
\* returns, that row is succeeded or failed, never pending.
C7_NoPendingDeploymentAtReturn ==
    pc = "done" =>
        \A d \in deployments : d.id = op.deployment_id => d.status \in {"succeeded", "failed"}

\* C8 as stated: in every step a release row keeps its status or moves from
\* pending to active or from pending to failed; a failed or active row never
\* takes another status.
C8_ReleaseStatusTransitions ==
    [][\A r \in releases : \A s \in releases' :
          r.id = s.id =>
             \/ s.status = r.status
             \/ r.status = "pending" /\ s.status \in {"active", "failed"}]_vars

\* C9 as stated: in every state, intermediate ones included, the release a
\* current-release row names exists, belongs to that app and is pending or
\* active; at rest it is active.
C9_CurrentIsPendingOrActive ==
    \A x \in current_releases :
        \E r \in releases :
            /\ r.id = x.release_id
            /\ r.app_id = x.app_id
            /\ r.status \in {"pending", "active"}
            /\ AtRest => r.status = "active"

UnitEvents ==
    {"write_unit", "daemon_reload", "enable", "stop", "disable", "remove_unit", "reload"}

\* Event e was issued by the running handler before its i-th event.
IssuedBefore(e, i) == \E j \in 1..(i - 1) : effects[j] = e

\* C11: within one deploy, every unit-file write and every init-system action
\* comes after the commit of the transaction inserting the pending rows, and
\* every stop of the previous release's unit comes after the current-release
\* pointer was set to the new release.
C11_PersistFirstPromoteBeforeClean ==
    op.kind = "deploy" =>
        \A i \in DOMAIN effects :
            /\ effects[i][1] \in UnitEvents => IssuedBefore(<<"commit_persist">>, i)
            /\ \A old \in op.from_release_id :
                 effects[i] = <<"stop", old>> =>
                    IssuedBefore(<<"set_current", op.release_id>>, i)

\* A full deploy replaced a current release: its unit was written and the
\* previous unit was stopped.
C11_Witness ==
    /\ Succeeded /\ op.kind = "deploy" /\ ~op.record_only
    /\ \E i \in DOMAIN effects : effects[i] = <<"write_unit", op.release_id>>
    /\ \E old \in op.from_release_id : \E i \in DOMAIN effects : effects[i] = <<"stop", old>>


\* C12 as stated: in a full deploy that resolves the digest by pulling, the
\* image pull comes after the commit of the transaction inserting the pending
\* release and deployment rows.
C12_PersistBeforePull ==
    (op.kind = "deploy" /\ ~op.dry_run /\ ~op.record_only) =>
        \A i \in DOMAIN effects :
            effects[i] = <<"pull_image">> => IssuedBefore(<<"commit_persist">>, i)


StartMarkers(contents, app) == { i \in DOMAIN contents : contents[i] = <<"start", app>> }

IssuedNow(e) == \E i \in (Len(effects) + 1)..Len(effects') : effects'[i] = e

C16_BackupThenWriteThenReload ==
    [][pc = "route" =>
          /\ \A i \in (Len(effects) + 1)..Len(effects') :
               /\ effects'[i][1] = "write_file" =>
                     (i > Len(effects) + 1 /\ effects'[i - 1] = <<"write_bak", "ok">>)
               /\ effects'[i][1] = "reload" =>
                     (i > Len(effects) + 1 /\
                      effects'[i - 1] \in {<<"write_file", "ok">>, <<"restore_file", "ok">>})
               /\ effects'[i] \in {<<"write_bak", "err">>, <<"write_file", "err">>} =>
                     i = Len(effects')
          /\ IssuedNow(<<"write_bak", "ok">>) => caddy_bak' = caddyfile]_vars

\* The write of the proxy file failed after the backup was written.
C16_Witness ==
    /\ pc = "compensate"
    /\ effects = << <<"write_bak", "ok">>, <<"write_file", "err">> >>
    /\ caddy_bak = caddyfile /\ caddyfile # <<>>


\* C17 as stated: when upsert_route has succeeded twice in a row with the
\* same app, release and snapshot, the proxy file after the second upsert is
\* identical to the file after the first, which the second upsert saved as
\* the backup.
C17_UpsertIdempotent ==
    (pc = "promote" /\ effects = upsert_issued("ok") \o upsert_issued("ok")) =>
        caddyfile = caddy_bak

\* C18 as stated: when upsert_route has succeeded, the lines outside the
\* app's managed block, blank lines included, are those the file held
\* before the call, in the same order and number.
C18_OutsideTextKept ==
    (pc = "promote" /\ effects # <<>>) =>
        KeptLines(caddyfile, op.app, FALSE) = KeptLines(caddy_bak, op.app, FALSE)


\* A host that survives rendering and parsing: not empty, no comma, no
\* space at either end.
WellFormedHost(h) ==
    /\ h # <<>>
    /\ \A i \in DOMAIN h : h[i] # ","
    /\ Head(h) # " " /\ h[Len(h)] # " "

\* C19: when upsert_route has rendered a block into an empty proxy file from
\* a non-empty list of well-formed hosts, list_routes over that file yields
\* exactly one route, with those hosts in the same order and the single
\* upstream of the block.
C19_ParseOfRenderedBlock ==
    (/\ pc = "promote" /\ effects # <<>> /\ caddy_bak = <<>>
     /\ op.snapshot.domains # <<>>
     /\ \A i \in DOMAIN op.snapshot.domains : WellFormedHost(op.snapshot.domains[i]))
    => parse_caddyfile_routes(caddyfile) =
          << [id |-> <<"deep-app", op.app>>,
              hosts |-> op.snapshot.domains,
              upstreams |-> << << <<"deep-app", op.app, op.release_id>>,
                                  op.snapshot.port >> >>] >>

\* The block of two hosts was rendered into an empty file and parsed back.
C19_Witness ==
    /\ pc = "promote" /\ effects # <<>> /\ caddy_bak = <<>>
    /\ Len(op.snapshot.domains) = 2
    /\ Len(parse_caddyfile_routes(caddyfile)) = 1
    /\ parse_caddyfile_routes(caddyfile)[1].hosts = op.snapshot.domains


\* C20 as stated: a record-only deploy, the retention it runs included,
\* issues nothing but its catalog transactions: no unit start, stop or
\* disable, no unit file written or removed, no image pull, no health probe
\* and no proxy write or reload.
C20_RecordOnlyTouchesNoContainer ==
    (op.kind = "deploy" /\ op.record_only) =>
        \A i \in DOMAIN effects : effects[i][1] \in {"commit_persist", "set_current"}


\* ------------------------------------------------------------------ C21
\* The proxy_error events the running handler has inserted or tried to.
ProxyErrorEvents ==
    {i \in DOMAIN effects : effects[i][1] = "insert_event" /\ effects[i][2] = "proxy_error"}

Issued(e) == \E i \in DOMAIN effects : effects[i] = e

\* The handler has promoted its release and its stop of the previous unit
\* (deploy.rs 181-183, 395-399) failed: the unit is still active.
StopOfPreviousFailed ==
    \E old \in op.from_release_id :
        /\ ~op.record_only
        /\ old # op.release_id
        /\ Issued(<<"set_current", op.release_id>>)
        /\ Issued(<<"stop", old>>)
        /\ app_container_name(op.app, old) \in running

\* C22 as stated: when a deploy or rollback returns after a promotion whose
\* stop of the previous unit failed or whose retention ended with an error,
\* it returns Ok, current is the promoted release, that release is active and
\* the deployment row of the invocation is succeeded.
C22_CleanupFailureKeepsOutcome ==
    (pc = "done" /\ Issued(<<"set_current", op.release_id>>)
       /\ (StopOfPreviousFailed \/ op.retention_err)) =>
        /\ op.result = "ok"
        /\ Current(op.app) = Some(op.release_id)
        /\ \E r \in releases : r.id = op.release_id /\ r.status = "active"
        /\ \E d \in deployments : d.id = op.deployment_id /\ d.status = "succeeded"


\* ------------------------------------------------------------------ addons bind
\* cli/addons.rs.  Env texts are token sequences as the host texts are: "="
\* and " " are tokens of their own.  An env map (BTreeMap<String, String>)
\* is a function from keys to values.
\* Mutation: a key already present keeps its first value.
EnvInsert_keeps_first(envs, key, value) ==
    [k \in DOMAIN envs \cup {key} |-> IF k \in DOMAIN envs THEN envs[k] ELSE value]

\* BTreeMap::insert: the later value replaces the earlier one.
EnvInsert(envs, key, value) ==
    [k \in DOMAIN envs \cup {key} |-> IF k = key THEN value ELSE envs[k]]

RECURSIVE FirstEq(_, _)
FirstEq(line, i) ==
    IF i > Len(line) THEN 0
    ELSE IF line[i] = "=" THEN i
    ELSE FirstEq(line, i + 1)

\* str::split_once('='): the texts before and after the first "=".
split_once(line) ==
    LET i == FirstEq(line, 1) IN
    IF i = 0 THEN None
    ELSE Some(<<SubSeq(line, 1, i - 1), SubSeq(line, i + 1, Len(line))>>)

\* run_provision_commands 520-527: the lines of one command's stdout; a line
\* without "=" or with an empty key is skipped, key and value are trimmed.
RECURSIVE parse_stdout(_, _)
parse_stdout(envs, lines) ==
    IF lines = <<>> THEN envs
    ELSE LET kv == split_once(Head(lines)) IN
         IF kv = None THEN parse_stdout(envs, Tail(lines))
         ELSE LET p == CHOOSE x \in kv : TRUE IN
              IF Trim(p[1]) = <<>> THEN parse_stdout(envs, Tail(lines))
              ELSE parse_stdout(EnvInsert(envs, Trim(p[1]), Trim(p[2])), Tail(lines))

\* read_container_env 542-548: the entries of .Config.Env, split at the
\* first "=", nothing trimmed; an entry without "=" is skipped.
RECURSIVE read_container_env(_, _)
read_container_env(envs, values) ==
    IF values = <<>> THEN envs
    ELSE LET kv == split_once(Head(values)) IN
         IF kv = None THEN read_container_env(envs, Tail(values))
         ELSE LET p == CHOOSE x \in kv : TRUE IN
              read_container_env(EnvInsert(envs, p[1], p[2]), Tail(values))

\* provision_addon_on_bind 478-480: every command env is inserted into envs.
RECURSIVE InsertAll(_, _, _)
InsertAll(envs, from, keys) ==
    IF keys = {} THEN envs
    ELSE LET key == CHOOSE k \in keys : TRUE IN
         InsertAll(EnvInsert(envs, key, from[key]), from, keys \ {key})

\* provision_addon_on_bind 482-486: each key of export_env the container
\* declares is removed from `exported` and inserted into envs.
RECURSIVE ExportLoop(_, _, _)
ExportLoop(envs, exported, keys) ==
    IF keys = <<>> THEN envs
    ELSE LET key == Head(keys) IN
         IF key \in DOMAIN exported
         THEN ExportLoop(EnvInsert(envs, key, exported[key]),
                         [k \in DOMAIN exported \ {key} |-> exported[k]], Tail(keys))
         ELSE ExportLoop(envs, exported, Tail(keys))

\* Mutation: every key the container declares is exported.
provision_addon_on_bind_exports_all(config, command_envs, exported) ==
    InsertAll(InsertAll(config.bind_env, command_envs, DOMAIN command_envs),
              exported, DOMAIN exported)

\* provision_addon_on_bind, given what the commands printed and what the
\* container declares.
provision_addon_on_bind(config, command_envs, exported) ==
    ExportLoop(InsertAll(config.bind_env, command_envs, DOMAIN command_envs),
               exported, config.export_env)

\* db.rs 328-343: the addon row of that name is updated, or created.
upsert_addon(rows, name, config) ==
    { a \in rows : a.name # name } \cup {[id |-> name, name |-> name, config |-> config]}

\* db.rs 353-364: INSERT ... ON CONFLICT(app_id, addon_id) DO UPDATE.
bind_addon(rows, app_id, addon_id, env) ==
    { b \in rows : ~(b.app_id = app_id /\ b.addon_id = addon_id) }
        \cup {[app_id |-> app_id, addon_id |-> addon_id, env |-> env]}


\* The addon config files under the config directory (AddonConfigFile
\* 251-272): env, bind_env, the provision commands and export_env.
AddonConfigFiles ==
    { [name |-> "pg",
       env |-> [k \in {<<"K1">>, <<"K5">>} |-> <<"addon">>],
       bind_env |-> [k \in {<<"K1">>, <<"K2">>} |-> <<"bind">>],
       provision |-> <<"cmd1", "cmd2">>,
       export_env |-> << <<"K2">>, <<"K3">> >>],
      [name |-> "pg",
       env |-> EmptyEnv,
       bind_env |-> EmptyEnv,
       provision |-> <<"cmd1">>,
       export_env |-> << <<"K1">>, <<"K1">> >>],
      [name |-> "pg",
       env |-> [k \in {<<"K3">>, <<"K4">>, <<"K5">>} |-> <<"addon">>],
       bind_env |-> [k \in {<<"K3">>} |-> <<"bind">>],
       provision |-> <<>>,
       export_env |-> <<>>] }

\* What podman exec of a provision command gives: it cannot be run, it exits
\* non-zero, or it exits zero having printed these lines.
ProvisionOutputs ==
    { [status |-> "spawn_error", stdout |-> <<>>],
      [status |-> "nonzero", stdout |-> <<>>],
      [status |-> "ok", stdout |-> <<>>],
      [status |-> "ok", stdout |-> << <<"K1", "=", "first">> >>],
      [status |-> "ok", stdout |-> << <<" ", "K1", " ", "=", " ", "second", "=", "x">>,
                                      <<"note">>, <<" ", "=", "v">> >>],
      [status |-> "ok", stdout |-> << <<"K2", "=", "first">>, <<"K2", "=", "second">> >>] }

\* What podman inspect of the addon container gives: a failure, or the
\* entries of .Config.Env.
InspectResults ==
    { [ok |-> FALSE, values |-> <<>>],
      [ok |-> TRUE, values |-> <<>>],
      [ok |-> TRUE, values |-> << <<"K1", "=", "container">>, <<"PATH">> >>],
      [ok |-> TRUE, values |-> << <<"K2", "=", "container">>, <<"K3", "=", "old">>,
                                  <<"K3", "=", "container">>, <<"K4", "=", "container">> >>] }

\* systemctl restart of the app's unit succeeds, or fails with the unit
\* left active or inactive.
RestartOutcomes == {"ok", "failed_active", "failed_inactive"}

\* The bind commands issued: app a1, which has a current release, with every
\* config file, and app a2, which has none, with the config file that
\* provisions nothing.
BindCalls ==
    { [app |-> "a1", config |-> c] : c \in AddonConfigFiles }
        \cup { [app |-> "a2", config |-> c] :
                   c \in { x \in AddonConfigFiles : x.provision = <<>> } }

\* AddonsCommand::Bind 157-158 fail: no config file of that name.
BindResolveFails(app) ==
    /\ pc = "idle"
    /\ pc' = "done"
    /\ op' = [kind |-> "bind", app |-> app, failed_at |-> "resolve", result |-> "err",
              before |-> bindings]
    /\ effects' = <<>>
    /\ UNCHANGED <<addon_tables, runner_state, catalog, host, ids>>

\* AddonsCommand::Bind 157-164: the app and the config file are found and
\* the addon row is upserted; provisioning starts from no command env.
BindResolved(app, config) ==
    /\ pc = "idle"
    /\ addons' = upsert_addon(addons, config.name, config)
    /\ pc' = "provision"
    /\ op' = [kind |-> "bind", app |-> app, addon |-> config.name, config |-> config,
              next |-> 1, command_envs |-> EmptyEnv, stdouts |-> <<>>,
              exported |-> EmptyEnv, binding_env |-> EmptyEnv,
              failed_at |-> "none", result |-> "none", before |-> bindings]
    /\ effects' = <<>>
    /\ UNCHANGED <<bindings, runner_state, catalog, host, ids>>

\* Mutation: the exit status of a provision command is not looked at.
RunProvisionCommand_ignores_status(out) ==
    /\ pc = "provision"
    /\ op.next <= Len(op.config.provision)
    /\ effects' = Append(effects, <<"exec", op.config.provision[op.next], out.status>>)
    /\ pc' = "provision"
    /\ op' = [op EXCEPT !.next = @ + 1,
                        !.command_envs = parse_stdout(@, out.stdout),
                        !.stdouts = Append(@, out.stdout)]
    /\ UNCHANGED <<addon_tables, runner_state, catalog, host, ids>>

\* run_provision_commands 496-528, one turn of its loop: podman exec of the
\* next command; a failure to run it or a non-zero exit ends the bind.
RunProvisionCommand(out) ==
    /\ pc = "provision"
    /\ op.next <= Len(op.config.provision)
    /\ effects' = Append(effects, <<"exec", op.config.provision[op.next], out.status>>)
    /\ IF out.status = "ok"
       THEN /\ pc' = "provision"
            /\ op' = [op EXCEPT !.next = @ + 1,
                                !.command_envs = parse_stdout(@, out.stdout),
                                !.stdouts = Append(@, out.stdout)]
       ELSE /\ pc' = "done"
            /\ op' = [op EXCEPT !.result = "err", !.failed_at = "provision"]
    /\ UNCHANGED <<addon_tables, runner_state, catalog, host, ids>>

\* provision_addon_on_bind 481-487 after the last command: the container
\* env is read and the binding env is complete.
ReadContainerEnv(res) ==
    /\ pc = "provision"
    /\ op.next > Len(op.config.provision)
    /\ effects' = Append(effects, <<"inspect", op.addon>>)
    /\ IF res.ok
       THEN LET exported == read_container_env(EmptyEnv, res.values) IN
            /\ pc' = "bind_addon"
            /\ op' = [op EXCEPT !.exported = exported,
                                !.binding_env =
                                    provision_addon_on_bind(op.config, op.command_envs,
                                                            exported)]
       ELSE /\ pc' = "done"
            /\ op' = [op EXCEPT !.result = "err", !.failed_at = "inspect"]
    /\ UNCHANGED <<addon_tables, runner_state, catalog, host, ids>>

\* AddonsCommand::Bind 166-167: the binding row is inserted or updated.
BindAddon ==
    /\ pc = "bind_addon"
    /\ bindings' = bind_addon(bindings, op.app, op.addon, op.binding_env)
    /\ pc' = "restart"
    /\ op' = op
    /\ UNCHANGED <<addons, runner_state, catalog, host, ids, effects>>

\* restart_app_with_bindings 437-468: without a current release it fails;
\* else the snapshot stored with the current release takes the addon
\* snapshots of now and their env on top of its own env, the unit of the
\* release is rewritten with that env (write_app_quadlet 308-311), the
\* daemon reloaded and the unit restarted.
RestartApp(outcome) ==
    /\ pc = "restart"
    /\ IF \/ current_release_id(current_releases, op.app) = None
          \/ \A id \in current_release_id(current_releases, op.app) :
                 get_release_by_id(releases, id) = None
       THEN /\ pc' = "done"
            /\ op' = [op EXCEPT !.result = "err", !.failed_at = "restart"]
            /\ UNCHANGED <<unit_files, running, effects>>
       ELSE LET id == CHOOSE x \in current_release_id(current_releases, op.app) : TRUE
                release == CHOOSE r \in get_release_by_id(releases, id) : TRUE
                snapshot == apply_addon_env(
                    [release.config_json EXCEPT
                        !.addons = addon_snapshots_for_app(addons, bindings, op.app)])
                name == app_container_name(op.app, id) IN
            /\ unit_files' = unit_files \cup {name}
            /\ running' = IF outcome = "failed_inactive" THEN running \ {name}
                          ELSE IF outcome = "ok" THEN running \cup {name}
                          ELSE running
            /\ effects' = effects \o << <<"write_unit", id, snapshot.env>>,
                                         <<"daemon_reload">>, <<"restart", id>> >>
            /\ pc' = "done"
            /\ op' = IF outcome = "ok" THEN [op EXCEPT !.result = "ok"]
                     ELSE [op EXCEPT !.result = "err", !.failed_at = "restart"]
    /\ UNCHANGED <<addon_tables, runner_state, catalog, caddyfile, caddy_bak, ids>>

\* The snapshot of the first release of app a1.
FirstSnapshot == to_snapshot(CHOOSE cfg \in AppConfigs : cfg.retain = 2, <<>>)

\* The catalog and the host as the first deploy of app a1 leaves them.
AfterFirstDeploy ==
    /\ pc = "idle"
    /\ releases = {[id |-> 1, app_id |-> "a1", created_at |-> 1, status |-> "active",
                    config_json |-> FirstSnapshot]}
    /\ deployments = {[id |-> 1, app_id |-> "a1", from |-> None, to |-> Some(1),
                       status |-> "succeeded", error |-> None]}
    /\ current_releases = {[app_id |-> "a1", release_id |-> 1]}
    /\ caddyfile = upsert_route(<<>>, <<>>, "a1", 1, FirstSnapshot, "ok").file
    /\ caddy_bak = upsert_route(<<>>, <<>>, "a1", 1, FirstSnapshot, "ok").bak
    /\ unit_files = {app_container_name("a1", 1)}
    /\ running = {app_container_name("a1", 1)}
    /\ next_release = 2
    /\ next_deployment = 2

BindInit ==
    /\ AfterFirstDeploy
    /\ op = NoOp
    /\ effects = <<>>
    /\ addons = {}
    /\ bindings = {}
    /\ RunnerInit

BindNext ==
    \/ \E app \in Apps : BindResolveFails(app)
    \/ \E c \in BindCalls : BindResolved(c.app, c.config)
    \/ \E out \in ProvisionOutputs : RunProvisionCommand(out)
    \/ \E res \in InspectResults : ReadContainerEnv(res)
    \/ BindAddon
    \/ \E outcome \in RestartOutcomes : RestartApp(outcome)
    \/ Return

BindSpec == BindInit /\ [][BindNext]_vars


\* ------------------------------------------------------------------ C23
\* The keys of export_env that the addon container declares.
ExportedKeys ==
    { k \in DOMAIN op.exported : \E i \in DOMAIN op.config.export_env :
                                      op.config.export_env[i] = k }

\* C23: once a bind has computed its binding env, the env holds exactly the
\* keys of bind_env, the keys the provision commands printed and the keys of
\* export_env that the container declares; a key's value is the container's
\* when the key is exported, else the commands' when a command printed it,
\* else the one of bind_env; a key the container declares that export_env
\* does not list enters only through the two other layers, with their value;
\* and this env is what the binding row then stores.
C23_BindingEnvLayers ==
    (op.kind = "bind" /\ pc \in {"bind_addon", "restart"}) =>
        LET env == op.binding_env IN
        /\ DOMAIN env = DOMAIN op.config.bind_env \cup DOMAIN op.command_envs
                            \cup ExportedKeys
        /\ \A k \in DOMAIN env :
              env[k] = IF k \in ExportedKeys THEN op.exported[k]
                       ELSE IF k \in DOMAIN op.command_envs THEN op.command_envs[k]
                       ELSE op.config.bind_env[k]
        /\ pc = "restart" =>
              \E b \in bindings : /\ b.app_id = op.app
                                  /\ b.addon_id = op.addon
                                  /\ b.env = env

\* A key in all three layers and a container key that is not exported.
C23_Witness ==
    /\ op.kind = "bind"
    /\ pc = "restart"
    /\ \E k \in ExportedKeys : k \in DOMAIN op.config.bind_env /\ k \in DOMAIN op.command_envs
    /\ \E k \in DOMAIN op.config.bind_env \ ExportedKeys : k \in DOMAIN op.command_envs
    /\ \E k \in DOMAIN op.exported : k \notin DOMAIN op.binding_env

\* ------------------------------------------------------------------ C24
\* The podman exec commands the running bind has issued, in order.
ExecEvents == SelectSeq(effects, LAMBDA e : e[1] = "exec")

\* Every line the commands run so far have printed, in order.
RECURSIVE PrintedLines(_)
PrintedLines(stdouts) ==
    IF stdouts = <<>> THEN <<>> ELSE Head(stdouts) \o PrintedLines(Tail(stdouts))

\* The key and the value a printed line stands for; no key when the line has
\* no "=" or nothing but blanks before it.
LineKey(line) ==
    IF split_once(line) = None THEN <<>>
    ELSE Trim((CHOOSE p \in split_once(line) : TRUE)[1])

LineValue(line) == Trim((CHOOSE p \in split_once(line) : TRUE)[2])

\* C24: within one bind the provision commands run so far are the first
\* commands of the declared list, in that order, each run once; and the env
\* kept for a key is the value of the last line printing that key, so the
\* later command's value when two commands print the same key.
C24_CommandsInOrderLaterWins ==
    op.kind = "bind" /\ op.failed_at # "resolve" =>
        LET lines == PrintedLines(op.stdouts) IN
        /\ Len(ExecEvents) <= Len(op.config.provision)
        /\ \A i \in DOMAIN ExecEvents : ExecEvents[i][2] = op.config.provision[i]
        /\ DOMAIN op.command_envs =
              { LineKey(lines[j]) : j \in DOMAIN lines } \ {<<>>}
        /\ \A k \in DOMAIN op.command_envs :
              \E j \in DOMAIN lines :
                  /\ LineKey(lines[j]) = k
                  /\ op.command_envs[k] = LineValue(lines[j])
                  /\ \A later \in (j + 1)..Len(lines) : LineKey(lines[later]) # k

\* Two commands have run and both printed K1; the second one's value is kept.
C24_Witness ==
    /\ op.kind = "bind"
    /\ pc = "bind_addon"
    /\ Len(ExecEvents) = 2
    /\ op.stdouts[1] # <<>>
    /\ LineKey(op.stdouts[1][1]) = <<"K1">>
    /\ \E j \in DOMAIN op.stdouts[2] :
          /\ LineKey(op.stdouts[2][j]) = <<"K1">>
          /\ LineValue(op.stdouts[2][j]) # LineValue(op.stdouts[1][1])
          /\ op.command_envs[<<"K1">>] = LineValue(op.stdouts[2][j])

\* ------------------------------------------------------------------ C25
\* C25: when a provision command of a bind could not be run or exited
\* non-zero, nothing is issued after it (no later provision command, no
\* inspect, no unit write, no daemon-reload, no restart), the bindings table
\* is as it was before the bind, and the bind returns an error.
C25_FailedProvisionAborts ==
    op.kind = "bind" =>
        \A i \in DOMAIN effects :
            (effects[i][1] = "exec" /\ effects[i][3] # "ok") =>
                /\ i = Len(effects)
                /\ pc = "done"
                /\ op.result = "err"
                /\ bindings = op.before

\* The second command of a rebind exits non-zero.
C25_Witness ==
    /\ op.kind = "bind"
    /\ pc = "done"
    /\ Len(effects) = 2
    /\ effects[2] = <<"exec", "cmd2", "nonzero">>
    /\ \E b \in bindings : b.app_id = op.app /\ b.addon_id = op.addon
    /\ unit_files = {app_container_name("a1", 1)}


\* ------------------------------------------------------------------ healthcheck
\* runtime.rs 89-110 and 142-166: the health step of the handlers, attempt
\* by attempt.
MaxRetries == 3

Max(a, b) == IF a >= b THEN a ELSE b

\* The healthcheck sections a snapshot can carry: the kind and `retries`.
HealthcheckConfigs == [kind : {"Http", "Tcp"}, retries : 0..MaxRetries]

\* What one attempt gives: Ok, or an error of healthcheck_http (47-71) or
\* healthcheck_tcp (74-86).
AttemptResults(kind) ==
    {"ok"} \cup (IF kind = "Http"
                 THEN {"http request failed", "http healthcheck failed with status"}
                 ELSE {"container has no IP address", "tcp connect failed"})

\* healthcheck_with_config 95-97 and retry_healthcheck_with 153: retries is
\* raised to 1 at least, no error is kept yet, the loop is at idx 0.
HealthcheckWithConfig(config) ==
    /\ pc = "idle"
    /\ pc' = "attempt"
    /\ op' = [kind |-> "healthcheck", config |-> config,
              retries |-> Max(config.retries, 1), idx |-> 0, last_err |-> None,
              result |-> "none", error |-> None]
    /\ effects' = <<>>
    /\ UNCHANGED <<addon_tables, runner_state, catalog, host, ids>>

\* Mutation: the loop sleeps after every failed attempt, the last included.
Attempt_sleeps_after_last(res) ==
    /\ pc = "attempt"
    /\ op.idx < op.retries
    /\ res \in AttemptResults(op.config.kind)
    /\ effects' = Append(effects, <<"attempt", op.idx, res>>)
    /\ IF res = "ok"
       THEN /\ pc' = "done"
            /\ op' = [op EXCEPT !.result = "ok"]
       ELSE /\ pc' = "sleep"
            /\ op' = [op EXCEPT !.last_err = Some(res)]
    /\ UNCHANGED <<addon_tables, runner_state, catalog, host, ids>>

\* retry_healthcheck_with 154-163, one turn of the loop up to its sleep.
Attempt(res) ==
    /\ pc = "attempt"
    /\ op.idx < op.retries
    /\ res \in AttemptResults(op.config.kind)
    /\ effects' = Append(effects, <<"attempt", op.idx, res>>)
    /\ IF res = "ok"
       THEN /\ pc' = "done"
            /\ op' = [op EXCEPT !.result = "ok"]
       ELSE IF op.idx + 1 < op.retries
       THEN /\ pc' = "sleep"
            /\ op' = [op EXCEPT !.last_err = Some(res)]
       ELSE /\ pc' = "attempt"
            /\ op' = [op EXCEPT !.last_err = Some(res), !.idx = @ + 1]
    /\ UNCHANGED <<addon_tables, runner_state, catalog, host, ids>>

\* retry_healthcheck_with 160: thread::sleep(interval), then the next turn.
Sleep ==
    /\ pc = "sleep"
    /\ effects' = Append(effects, <<"sleep">>)
    /\ pc' = "attempt"
    /\ op' = [op EXCEPT !.idx = @ + 1]
    /\ UNCHANGED <<addon_tables, runner_state, catalog, host, ids>>

\* retry_healthcheck_with 165: the loop is over, the last error is returned.
RetriesExhausted ==
    /\ pc = "attempt"
    /\ op.idx >= op.retries
    /\ pc' = "done"
    /\ op' = [op EXCEPT !.result = "err",
                        !.error = IF op.last_err = None THEN Some("healthcheck failed")
                                  ELSE op.last_err]
    /\ UNCHANGED <<addon_tables, runner_state, catalog, host, ids, effects>>

HealthNext ==
    \/ \E config \in HealthcheckConfigs : HealthcheckWithConfig(config)
    \/ \E res \in AttemptResults("Http") \cup AttemptResults("Tcp") : Attempt(res)
    \/ Sleep
    \/ RetriesExhausted
    \/ Return

\* The calling thread keeps running: an attempt ends within its timeout and
\* a sleep within its interval.
HealthSpec == Init /\ [][HealthNext]_vars /\ WF_vars(HealthNext)

\* ------------------------------------------------------------------ C26
AttemptEvents == SelectSeq(effects, LAMBDA e : e[1] = "attempt")

\* C26: a call of healthcheck_with_config makes at most max(1, retries)
\* attempts; a successful attempt is the last thing it does and it returns
\* Ok; every sleep stands between a failed attempt and the next attempt, so
\* none follows the last attempt; when it returns an error, max(1, retries)
\* attempts were made, all failed, and the error is the one of the last
\* attempt; and every call returns.
C26_RetryLoop ==
    /\ [](op.kind = "healthcheck" =>
            /\ Len(AttemptEvents) <= Max(1, op.config.retries)
            /\ \A i \in DOMAIN effects :
                  /\ (effects[i][1] = "attempt" /\ effects[i][3] = "ok") =>
                        i = Len(effects) /\ pc = "done" /\ op.result = "ok"
                  /\ effects[i] = <<"sleep">> =>
                        /\ i > 1
                        /\ effects[i - 1][1] = "attempt"
                        /\ effects[i - 1][3] # "ok"
                        /\ IF i < Len(effects)
                           THEN effects[i + 1][1] = "attempt"
                           ELSE pc = "attempt" /\ op.idx < op.retries
            /\ pc = "done" =>
                  /\ effects # <<>>
                  /\ effects[Len(effects)][1] = "attempt"
                  /\ op.result = "ok" <=> effects[Len(effects)][3] = "ok"
                  /\ op.result = "err" =>
                        /\ Len(AttemptEvents) = Max(1, op.config.retries)
                        /\ op.error = Some(effects[Len(effects)][3]))
    /\ (pc = "attempt") ~> (pc = "done")

\* Three failed attempts with two sleeps between them; the errors differ and
\* the last one is returned.
C26_Witness ==
    /\ op.kind = "healthcheck"
    /\ pc = "done"
    /\ op.result = "err"
    /\ Len(effects) = 5
    /\ effects[1][3] # effects[5][3]
    /\ op.error = Some(effects[5][3])


\* ------------------------------------------------------------------ runner
\* runner.rs 50-78.  A thread is "idle" outside set_runner_for_tests, at
\* "lock" inside TEST_LOCK.lock(), at "swap" once it has the mutex, "holding"
\* while its RunnerGuard lives, at "unlock" between the body of Drop::drop
\* and the drop of the guard's MutexGuard field, "deadlocked" or "panicked"
\* when it will run no more.
TestRunners == {"r1", "r2"}

handler_state == <<pc, op, effects>>

\* runner.rs 65-66: the call reaches TEST_LOCK.lock().
SetRunnerForTests(t, runner) ==
    /\ threads[t].pc = "idle"
    /\ threads' = [threads EXCEPT ![t] = [@ EXCEPT !.pc = "lock", !.runner = Some(runner)]]
    /\ UNCHANGED <<RUNNER, TEST_LOCK, addon_tables, catalog, host, ids, handler_state>>

\* Mutation: lock() returns although another thread holds the mutex.
Lock_no_wait(t) ==
    /\ threads[t].pc = "lock"
    /\ IF TEST_LOCK.poisoned
       THEN /\ threads' = [threads EXCEPT ![t] = [IdleThread EXCEPT !.pc = "panicked"]]
            /\ UNCHANGED TEST_LOCK
       ELSE /\ TEST_LOCK' = [TEST_LOCK EXCEPT !.holder = Some(t)]
            /\ threads' = [threads EXCEPT ![t] = [@ EXCEPT !.pc = "swap"]]
    /\ UNCHANGED <<RUNNER, addon_tables, catalog, host, ids, handler_state>>

\* runner.rs 66: lock() returns once no thread holds the mutex; on a poisoned
\* mutex expect() panics and the mutex is free again.
Lock(t) ==
    /\ threads[t].pc = "lock"
    /\ TEST_LOCK.holder = None
    /\ IF TEST_LOCK.poisoned
       THEN /\ threads' = [threads EXCEPT ![t] = [IdleThread EXCEPT !.pc = "panicked"]]
            /\ UNCHANGED TEST_LOCK
       ELSE /\ TEST_LOCK' = [TEST_LOCK EXCEPT !.holder = Some(t)]
            /\ threads' = [threads EXCEPT ![t] = [@ EXCEPT !.pc = "swap"]]
    /\ UNCHANGED <<RUNNER, addon_tables, catalog, host, ids, handler_state>>

\* runner.rs 67-76: under the write lock the slot's runner is kept as
\* `previous` and replaced; the guard is returned.
Swap(t) ==
    /\ threads[t].pc = "swap"
    /\ RUNNER' = CHOOSE r \in threads[t].runner : TRUE
    /\ threads' = [threads EXCEPT ![t] = [@ EXCEPT !.pc = "holding",
                                                   !.previous = Some(RUNNER)]]
    /\ UNCHANGED <<TEST_LOCK, addon_tables, catalog, host, ids, handler_state>>

\* runner.rs 56-61: Drop::drop of the guard, at the end of its scope or
\* while its thread unwinds from a panic: the slot takes `previous` back.
DropGuard(t, panicking) ==
    /\ threads[t].pc = "holding"
    /\ RUNNER' = CHOOSE r \in threads[t].previous : TRUE
    /\ threads' = [threads EXCEPT ![t] = [@ EXCEPT !.pc = "unlock",
                                                   !.panicking = panicking]]
    /\ UNCHANGED <<TEST_LOCK, addon_tables, catalog, host, ids, handler_state>>

\* runner.rs 51-54: after Drop::drop the fields are dropped, the MutexGuard
\* last; dropped during a panic it poisons the mutex.
ReleaseLock(t) ==
    /\ threads[t].pc = "unlock"
    /\ TEST_LOCK' = [holder |-> None,
                     poisoned |-> TEST_LOCK.poisoned \/ threads[t].panicking]
    /\ threads' = [threads EXCEPT ![t] =
                      [IdleThread EXCEPT !.pc = IF threads[t].panicking THEN "panicked"
                                                ELSE "idle"]]
    /\ UNCHANGED <<RUNNER, addon_tables, catalog, host, ids, handler_state>>

\* runner.rs 66 on the thread that holds the mutex: Mutex::lock does not
\* return.  The thread hangs for ever; the other outcome the standard
\* library allows, a panic, is DropGuard(t, TRUE).
Relock(t) ==
    /\ threads[t].pc = "holding"
    /\ threads' = [threads EXCEPT ![t] = [@ EXCEPT !.pc = "deadlocked"]]
    /\ UNCHANGED <<RUNNER, TEST_LOCK, addon_tables, catalog, host, ids, handler_state>>

RunnerNext ==
    \/ \E t \in Threads, runner \in TestRunners : SetRunnerForTests(t, runner)
    \/ \E t \in Threads : Lock(t)
    \/ \E t \in Threads : Swap(t)
    \/ \E t \in Threads, panicking \in BOOLEAN : DropGuard(t, panicking)
    \/ \E t \in Threads : ReleaseLock(t)
    \/ \E t \in Threads : Relock(t)

RunnerSpec == Init /\ [][RunnerNext]_vars

\* ------------------------------------------------------------------ C27
\* The threads whose guard is created and not yet wholly dropped.
GuardHolders == { t \in Threads : threads[t].pc \in {"swap", "holding", "unlock", "deadlocked"} }

\* C27: at most one thread is between the return of lock() and the release
\* of the mutex, and it is the holder of TEST_LOCK, so a second
\* set_runner_for_tests waits at lock(); while a guard lives the slot holds
\* its runner; when the body of drop has run and the mutex is not yet
\* released, the slot already holds the runner installed before the guard
\* was created; and whenever no guard is left the slot holds the default
\* runner.
C27_RunnerOverridesExclusive ==
    /\ Cardinality(GuardHolders) <= 1
    /\ \A t \in Threads : t \in GuardHolders <=> TEST_LOCK.holder = Some(t)
    /\ \A t \in Threads :
          /\ threads[t].pc \in {"holding", "deadlocked"} =>
                /\ Some(RUNNER) = threads[t].runner
                /\ threads[t].previous = Some(RealRunner)
          /\ threads[t].pc = "unlock" =>
                /\ Some(RUNNER) = threads[t].previous
                /\ TEST_LOCK.holder = Some(t)
    /\ GuardHolders = {} => RUNNER = RealRunner

\* One thread has restored the slot and still holds the mutex while the two
\* others wait at lock() with their runners.
C27_Witness ==
    \E t \in Threads :
        /\ threads[t].pc = "unlock"
        /\ threads[t].runner # Some(RUNNER)
        /\ \A u \in Threads \ {t} : threads[u].pc = "lock"


\* ------------------------------------------------------------------ C28
\* C28 as stated: a deploy or rollback invoked with dry_run changes no
\* catalog row, no unit file, no proxy file and no unit, and issues no
\* external command: no image pull, no network creation, no systemctl.
C28_DryRunExecutesNothing ==
    [][(pc = "idle" /\ pc' = "done" /\ op'.dry_run) =>
          /\ UNCHANGED <<catalog, host, ids, addon_tables>>
          /\ effects' = <<>>]_vars


C30_UnknownTargetChangesNothing ==
    [][(/\ pc = "idle"
        /\ op'.kind = "rollback"
        /\ ~\E r \in releases : r.id = op'.release_id /\ r.app_id = op'.app) =>
          /\ pc' = "done"
          /\ op'.result = "err"
          /\ effects' = <<>>
          /\ UNCHANGED <<catalog, host, ids, addon_tables>>]_vars

\* The refused target is a release that retention has pruned, of an app
\* that has a current release, a route and a running unit.
C30_Witness ==
    /\ pc = "done"
    /\ op.kind = "rollback"
    /\ op.result = "err"
    /\ op.failed_at = "resolve"
    /\ op.release_id < next_release
    /\ \A r \in releases : r.id # op.release_id
    /\ Current(op.app) # None
    /\ RunningReleases(op.app) # {}
    /\ caddyfile # <<>>

\* ------------------------------------------------------------------ image ref
\* Result<String>: Ok(value) or Err(message).
Ok(value) == [ok |-> TRUE, value |-> value]
Err(message) == [ok |-> FALSE, value |-> message]

\* DeployConfig: image, image_prefix and tag_strategy are Option<String>.
DeployConfigs ==
    [image : {None, Some(<<>>), Some(<<"cfg/app", ":", "v1">>)},
     image_prefix : {None, Some(<<"ghcr.io/me/app">>)},
     tag_strategy : {None, Some("git_sha"), Some("latest"), Some("semver"), Some("")}]

\* The --image argument: absent, empty, blank, or a reference.
ImageArgs == {None, Some(<<>>), Some(<<" ">>), Some(<<"cli/app", ":", "v2">>),
              Some(<<" ", "cli/app">>)}

\* resolve_git_sha_base: the commit of git_ref or of HEAD, "unknown" without
\* a repository.
GitShaBases == {<<"deadbeef">>, <<"unknown">>}

\* Mutation: the image of app.toml wins over the --image argument.
resolve_image_ref_config_first(input, deploy, git_sha) ==
    IF deploy.image # None
    THEN Ok(CHOOSE image \in deploy.image : TRUE)
    ELSE IF input # None /\ Trim(CHOOSE value \in input : TRUE) # <<>>
    THEN Ok(CHOOSE value \in input : TRUE)
    ELSE Err(<<"image ref required">>)

\* resolve_image_ref: --image unless blank, then deploy.image, then
\* "{prefix}:{tag}" with the tag of the strategy (default git_sha).
resolve_image_ref(input, deploy, git_sha) ==
    IF input # None /\ Trim(CHOOSE value \in input : TRUE) # <<>>
    THEN Ok(CHOOSE value \in input : TRUE)
    ELSE IF deploy.image # None
    THEN Ok(CHOOSE image \in deploy.image : TRUE)
    ELSE IF deploy.image_prefix # None
    THEN LET prefix == CHOOSE p \in deploy.image_prefix : TRUE
             strategy == IF deploy.tag_strategy = None THEN "git_sha"
                         ELSE CHOOSE s \in deploy.tag_strategy : TRUE
         IN  IF strategy = "git_sha" THEN Ok(prefix \o <<":">> \o git_sha)
             ELSE IF strategy = "latest" THEN Ok(prefix \o <<":">> \o <<"latest">>)
             ELSE Err(<<"unknown tag_strategy", strategy>>)
    ELSE Err(<<"image ref required">>)

ImageInputs == [input : ImageArgs, deploy : DeployConfigs, git_sha : GitShaBases]

\* handle_deploy up to the image ref (lines 63-75) for a known app: an
\* error of resolve_image_ref is returned by `?` before anything is recorded.
DeployResolveImage(app, in) ==
    LET image_ref == resolve_image_ref(in.input, in.deploy, in.git_sha) IN
    /\ pc = "idle"
    /\ next_release <= MaxReleases
    /\ next_deployment <= MaxDeployments
    /\ IF image_ref.ok
       THEN /\ pc' = "persist"
            /\ op' = [NoOp EXCEPT !.kind = "deploy", !.app = app,
                          !.release_id = next_release,
                          !.deployment_id = next_deployment,
                          !.snapshot = FirstSnapshot,
                          !.from_release_id = current_release_id(current_releases, app),
                          !.before = current_release_id(current_releases, app),
                          !.image_ref = image_ref.value]
       ELSE /\ pc' = "done"
            /\ op' = [NoOp EXCEPT !.kind = "deploy", !.app = app,
                          !.result = "err", !.failed_at = "resolve"]
    /\ effects' = <<>>
    /\ UNCHANGED <<addon_tables, runner_state, catalog, host, ids>>

\* The deploy is followed no further than its persist transaction.
ImageReturns ==
    /\ pc = "start"
    /\ pc' = "idle"
    /\ op' = NoOp
    /\ effects' = <<>>
    /\ UNCHANGED <<addon_tables, runner_state, catalog, host, ids>>

ImageNext ==
    \/ \E app \in Apps, in \in ImageInputs : DeployResolveImage(app, in)
    \/ \E ok \in BOOLEAN : DeployPersist(ok)
    \/ ImageReturns
    \/ Return

ImageSpec == Init /\ [][ImageNext]_vars

\* C31: the image ref is the non-blank --image, else deploy.image, else the
\* prefix joined by ":" with the commit SHA (strategy git_sha or absent) or
\* with "latest"; any other strategy, or no image source, is an error that
\* leaves the releases and deployments as they were.
ImageRefWanted(in) ==
    IF in.input # None /\ (\E value \in in.input : \E i \in DOMAIN value : value[i] # " ")
    THEN in.input
    ELSE IF in.deploy.image # None THEN in.deploy.image
    ELSE IF in.deploy.image_prefix = None THEN None
    ELSE IF in.deploy.tag_strategy \in {None, Some("git_sha")}
    THEN { p \o <<":">> \o in.git_sha : p \in in.deploy.image_prefix }
    ELSE IF in.deploy.tag_strategy = Some("latest")
    THEN { p \o <<":", "latest">> : p \in in.deploy.image_prefix }
    ELSE None

C31_ImageRefPriority ==
    [][\A app \in Apps, in \in ImageInputs :
         DeployResolveImage(app, in) =>
           /\ releases' = releases /\ deployments' = deployments
           /\ IF ImageRefWanted(in) = None
              THEN pc' = "done" /\ op'.result = "err"
              ELSE pc' = "persist" /\ Some(op'.image_ref) = ImageRefWanted(in)]_vars

C31_Witness ==
    /\ pc = "persist"
    /\ op.image_ref = <<"ghcr.io/me/app", ":", "deadbeef">>
    /\ releases # {}

\* ------------------------------------------------------------------ addons unbind
\* db.rs 367-373: DELETE FROM bindings WHERE app_id AND addon_id.
unbind_addon(rows, app_id, addon_id) ==
    { b \in rows : ~(b.app_id = app_id /\ b.addon_id = addon_id) }

\* db.rs 376-394: the addon row of that name, if any.
get_addon_by_name(rows, name) == { a \in rows : a.name = name }

\* The config file of a second addon, which provisions and exports nothing.
CacheConfigFile ==
    [name |-> "cache",
     env |-> [k \in {<<"K5">>, <<"K7">>} |-> <<"cache">>],
     bind_env |-> [k \in {<<"K7">>, <<"K8">>} |-> <<"bind">>],
     provision |-> <<>>,
     export_env |-> <<>>]

\* The bind commands of the addon lifecycle: both addons for app a1, the
\* first one for app a2, which has no current release.
AddonBindCalls ==
    { [app |-> "a1", config |-> c] :
         c \in { x \in AddonConfigFiles : x.provision = <<>> } \cup {CacheConfigFile} }
        \cup { [app |-> "a2", config |-> c] :
                   c \in { x \in AddonConfigFiles : x.provision = <<>> } }

\* AddonsCommand::Unbind 177-180 fail: no addon row of that name.
UnbindResolveFails(app, addon) ==
    /\ pc = "idle"
    /\ get_addon_by_name(addons, addon) = None
    /\ pc' = "done"
    /\ op' = [kind |-> "unbind", app |-> app, addon |-> addon,
              failed_at |-> "resolve", result |-> "err", before |-> bindings]
    /\ effects' = <<>>
    /\ UNCHANGED <<addon_tables, runner_state, catalog, host, ids>>

\* AddonsCommand::Unbind 177-181: the app and the addon row are found and
\* the binding row is deleted.
UnbindAddon(app, addon) ==
    /\ pc = "idle"
    /\ get_addon_by_name(addons, addon) # None
    /\ LET addon_row == CHOOSE a \in get_addon_by_name(addons, addon) : TRUE IN
       bindings' = unbind_addon(bindings, app, addon_row.id)
    /\ pc' = "restart"
    /\ op' = [kind |-> "unbind", app |-> app, addon |-> addon,
              failed_at |-> "none", result |-> "none", before |-> bindings]
    /\ effects' = <<>>
    /\ UNCHANGED <<addons, runner_state, catalog, host, ids>>

\* The addon lifecycle of an app: binds, unbinds and record-only deploys of
\* app a1 in between, from the state its first deploy left.
AddonNext ==
    \/ \E c \in AddonBindCalls : BindResolved(c.app, c.config)
    \/ \E res \in InspectResults : ReadContainerEnv(res)
    \/ BindAddon
    \/ \E app \in Apps, addon \in {"cache", "pg"} : UnbindResolveFails(app, addon)
    \/ \E app \in Apps, addon \in {"cache", "pg"} : UnbindAddon(app, addon)
    \/ \E outcome \in RestartOutcomes : RestartApp(outcome)
    \/ \E cfg \in { c \in AppConfigs : c.retain = 2 } : DeployResolved("a1", cfg, "record_only")
    \/ \E ok \in BOOLEAN : DeployPersist(ok)
    \/ Promote
    \/ Activate
    \/ \E ok \in BOOLEAN : EnforceRetention(ok)
    \/ \E stops \in BOOLEAN : PruneRelease(stops)
    \/ Finish
    \/ Return

AddonSpec == BindInit /\ [][AddonNext]_vars

\* The binding rows of an app and the addon row a binding row names.
BindingsOf(app) == { b \in bindings : b.app_id = app /\ \E a \in addons : a.id = b.addon_id }
AddonOf(b) == CHOOSE a \in addons : a.id = b.addon_id
NameRank(name) == CHOOSE i \in DOMAIN AddonNames : AddonNames[i] = name

\* C32: the addon snapshots a deploy reads for its app are exactly the
\* addons bound to the app, in ascending order of name, and the env of each
\* config is the addon's env overlaid with the binding's env: the binding's
\* value on every key of the binding, the addon's value on the other keys.
C32_AddonSnapshotsMergeBindingEnv ==
    (pc = "persist" /\ op.kind = "deploy") =>
        LET snaps == op.snapshot.addons IN
        /\ { snaps[i].name : i \in DOMAIN snaps } =
               { AddonOf(b).name : b \in BindingsOf(op.app) }
        /\ \A i, j \in DOMAIN snaps :
               i < j => NameRank(snaps[i].name) < NameRank(snaps[j].name)
        /\ \A i \in DOMAIN snaps : \A b \in BindingsOf(op.app) :
               AddonOf(b).name = snaps[i].name =>
                   LET addon_env == AddonOf(b).config.env
                       env == snaps[i].config.env IN
                   /\ DOMAIN env = DOMAIN addon_env \cup DOMAIN b.env
                   /\ \A k \in DOMAIN b.env : env[k] = b.env[k]
                   /\ \A k \in DOMAIN addon_env \ DOMAIN b.env : env[k] = addon_env[k]

C32_Witness ==
    /\ pc = "persist" /\ op.kind = "deploy"
    /\ DOMAIN op.snapshot.addons = {1, 2}
    /\ op.snapshot.addons[1].name = "cache"
    /\ op.snapshot.addons[2].config.env[<<"K3">>] = <<"bind">>
    /\ op.snapshot.addons[2].config.env[<<"K5">>] = <<"addon">>
    /\ \E b \in bindings : b.app_id = "a2"

\* C33: a route step whose snapshot has no domains fails without reading
\* the proxy file, and leaves the proxy file and the .bak file as they were
\* with nothing issued: no write of either file and no reload.
C33_EmptyDomainsTouchNothing ==
    [][(pc = "route" /\ op.snapshot.domains = <<>> /\ ~(op.kind = "deploy" /\ op.skip_proxy)
        /\ pc' # "route") =>
           /\ pc' = "compensate" /\ op'.failed_at = "route"
           /\ caddyfile' = caddyfile /\ caddy_bak' = caddy_bak
           /\ effects' = effects
           /\ \A outcome \in UpsertOutcomes :
                 LET res == upsert_route(caddyfile, caddy_bak, op.app, op.release_id,
                                         op.snapshot, outcome) IN
                 ~res.ok /\ ~res.read /\ res.issued = <<>>]_vars

C33_Witness ==
    /\ pc = "compensate" /\ op.failed_at = "route"
    /\ op.snapshot.domains = <<>>
    /\ caddyfile # <<>>
    /\ effects = <<>>

\* The releases the retention run of the returned command pruned (only
\* prune_release disables a unit), and the ids the app had before it.
PrunedIds == { id \in 1..(next_release - 1) : Issued(<<"disable", id>>) }
IdsBeforeRetention == { r.id : r \in ReleasesOf(op.app) } \cup PrunedIds

\* The current release plus the newest other releases until n are kept; a
\* release row's created_at grows with its id.
Survivors(had, cur, n) ==
    cur \cup { id \in had \ cur :
                 Cardinality({ j \in had \ cur : j > id }) < n - Cardinality(cur) }

\* C34: after a deploy or rollback whose retention run reported no error,
\* if the app had more than max(retain, 1) releases, the releases left are
\* exactly the current one plus the newest others up to max(retain, 1), and
\* no release row and no deployment row (from or to) names a pruned release;
\* with no more than max(retain, 1) releases nothing is pruned.
C34_RetentionKeepsCurrentAndNewest ==
    (Succeeded /\ op.kind \in {"deploy", "rollback"} /\ ~op.retention_err) =>
        LET n == IF op.snapshot.retain > 1 THEN op.snapshot.retain ELSE 1 IN
        /\ Cardinality(IdsBeforeRetention) > n =>
              { r.id : r \in ReleasesOf(op.app) } =
                  Survivors(IdsBeforeRetention, Current(op.app), n)
        /\ Cardinality(IdsBeforeRetention) <= n => PrunedIds = {}
        /\ \A id \in PrunedIds :
              /\ \A r \in releases : r.id # id
              /\ \A d \in deployments : id \notin d.from /\ id \notin d.to

\* A rollback to release 1, whose snapshot retains one release, pruned the
\* newer release 2 with the deployment rows naming it and kept the current one.
C34_Witness ==
    /\ Succeeded /\ op.kind = "rollback" /\ ~op.retention_err
    /\ PrunedIds = {2}
    /\ { r.id : r \in ReleasesOf(op.app) } = {1}
    /\ Current(op.app) = {1}
    /\ Cardinality(deployments) < next_deployment - 1

C36_FailedRollbackSparesCurrent ==
    (pc = "done" /\ op.kind = "rollback" /\ op.failed_at \in {"start", "health", "route"}) =>
        \A c \in Current(op.app) : ~Issued(<<"stop", c>>)

\* A step that deletes a release row or a deployment row.
RowsDeleted ==
    \/ \E r \in releases : \A s \in releases' : s.id # r.id
    \/ \E d \in deployments : \A e \in deployments' : e.id # d.id

\* A step that issues a stop for the unit of the release that was current
\* when the handler started.
StopsPrevious ==
    \E b \in op.before : \E i \in DOMAIN effects' :
        i > Len(effects) /\ effects'[i] = <<"stop", b>>

\* C37: a deploy stops the unit of the previously current release, runs
\* retention and deletes rows only after it has set the current release,
\* and a deploy that returns an error has not set it: so a deploy returning
\* an error has stopped no previous unit, run no retention, deleted no row.
C37_FailedDeployDeletesNothing ==
    [][/\ (op.kind = "deploy" /\ op'.kind = "deploy"
           /\ (RowsDeleted \/ StopsPrevious \/ pc' \in {"retention", "prune"})) =>
              Issued(<<"set_current", op.release_id>>)
       /\ (pc' = "done" /\ op'.kind = "deploy" /\ op'.result = "err") =>
              /\ \A i \in DOMAIN effects' : effects'[i] # <<"set_current", op'.release_id>>
              /\ ~RowsDeleted
              /\ ~StopsPrevious
              /\ op'.plan = <<>> /\ ~op'.retention_err]_vars

\* A deploy failed at its health probe: the unit it started was stopped and
\* the unit of the previously current release is still running.
C37_Witness ==
    /\ Failed /\ op.kind = "deploy" /\ op.failed_at = "health"
    /\ Issued(<<"stop", op.release_id>>)
    /\ \E b \in op.before :
          /\ app_container_name(op.app, b) \in running
          /\ ~Issued(<<"stop", b>>)
    /\ Cardinality(ReleasesOf(op.app)) = 2

\* C38: when a bind or an unbind has returned an error, the binding rows,
\* their env included, are the ones there were before the call.
C38_FailedBindKeepsBindings ==
    (pc = "done" /\ op.kind \in {"bind", "unbind"} /\ op.result = "err") =>
        bindings = op.before

\* The env written into the unit rebuilt by the returned bind or unbind.
RebuiltUnitEnvs ==
    { effects[i][3] : i \in { j \in DOMAIN effects : effects[j][1] = "write_unit" } }

\* The variables that come only from the addon just unbound: keys of its
\* env or of the env its binding had which neither app.toml (the [env] of
\* every deploy of the app is the one of its first snapshot) nor an addon
\* still bound to the app sets.
KeysOnlyFrom(addon, app) ==
    LET a == CHOOSE x \in get_addon_by_name(addons, addon) : TRUE
        gone == { b \in op.before : b.app_id = app /\ b.addon_id = a.id }
        mine == DOMAIN a.config.env \cup UNION { DOMAIN b.env : b \in gone }
        kept == UNION { DOMAIN AddonOf(b).config.env \cup DOMAIN b.env :
                           b \in BindingsOf(app) }
    IN  { k \in mine : k \notin kept /\ k \notin DOMAIN FirstSnapshot.env }

\* C39: the unit an unbind rebuilds for the app's current release carries
\* no variable that came only from the addon unbound.
C39_UnbindRemovesAddonEnv ==
    (pc = "done" /\ op.kind = "unbind" /\ op.result = "ok") =>
        \A env \in RebuiltUnitEnvs :
            DOMAIN env \cap KeysOnlyFrom(op.addon, op.app) = {}

\* Every start marker of the file is followed by its end marker before the
\* next start marker.
RECURSIVE MarkersPaired(_, _)
MarkersPaired(lines, in_block) ==
    IF lines = <<>> THEN ~in_block
    ELSE IF Head(lines)[1] = "start" THEN ~in_block /\ MarkersPaired(Tail(lines), TRUE)
    ELSE IF Head(lines) = <<"end">> THEN MarkersPaired(Tail(lines), FALSE)
    ELSE MarkersPaired(Tail(lines), in_block)

\* The managed blocks of the apps other than `app`, first to last, each from
\* its start marker to its end marker.
RECURSIVE OtherBlocks(_, _, _)
OtherBlocks(lines, app, block) ==
    IF lines = <<>> THEN <<>>
    ELSE LET line == Head(lines) IN
         IF block = <<>>
         THEN IF line[1] = "start" /\ line # <<"start", app>>
              THEN OtherBlocks(Tail(lines), app, <<line>>)
              ELSE OtherBlocks(Tail(lines), app, <<>>)
         ELSE IF line = <<"end">>
              THEN <<Append(block, line)>> \o OtherBlocks(Tail(lines), app, <<>>)
              ELSE OtherBlocks(Tail(lines), app, Append(block, line))

\* C40: when the route step has written the proxy file and the file it read
\* (kept in the .bak file) had every start marker paired with its end
\* marker, the managed blocks of the other apps are the same, line for line
\* and in the same order, and the app's block is the last five lines of the
\* file, after all of them.
C40_UpsertKeepsOtherBlocks ==
    (pc = "promote" /\ effects # <<>> /\ MarkersPaired(caddy_bak, FALSE)) =>
        /\ OtherBlocks(caddyfile, op.app, <<>>) = OtherBlocks(caddy_bak, op.app, <<>>)
        /\ Len(caddyfile) >= 5
        /\ SubSeq(caddyfile, Len(caddyfile) - 4, Len(caddyfile)) =
              RenderBlock(op.app, op.snapshot.domains,
                          Upstream(op.app, op.release_id, op.snapshot.port))
        /\ StartMarkers(caddyfile, op.app) = {Len(caddyfile) - 4}

\* The file held a block of a third app, one of this app and one of the
\* second app; the two others are still there, in that order.
C40_Witness ==
    /\ pc = "promote" /\ effects # <<>> /\ MarkersPaired(caddy_bak, FALSE)
    /\ op.app = "a1"
    /\ StartMarkers(caddy_bak, "a1") # {}
    /\ OtherBlocks(caddyfile, "a1", <<>>) = <<StaleBlock("a3"), StaleBlock("a2")>>
====
